---- MODULE Spec2Model ----
(***************************************************************************)
(* State-machine model of the UI test runner: ElementCache (key, get,     *)
(* set), XPathHelper.generate_xpath_variations, the AI detector's result  *)
(* handling, PlaywrightController's probe and interaction results and     *)
(* TestExecutor (_get_element_selector, the step handlers,                *)
(* execute_scenario, execute_feature_file).                               *)
(*                                                                         *)
(* Text is modelled as sequences of one-character strings, so that        *)
(* lower(), strip(), replace() and XPath text matching are computed       *)
(* character by character, case-sensitively where the code is.            *)
(*                                                                         *)
(* A method whose result depends on the browser or on the AI backend is   *)
(* an operator that yields the set of its possible outcomes.              *)
(***************************************************************************)
EXTENDS Naturals, Sequences, FiniteSets, TLC

(***************************************************************************)
(* Python str operations used by the code                                  *)
(***************************************************************************)
UpperLetters ==
    <<"A","B","C","D","E","F","G","H","I","J","K","L","M",
      "N","O","P","Q","R","S","T","U","V","W","X","Y","Z">>

LowerLetters ==
    <<"a","b","c","d","e","f","g","h","i","j","k","l","m",
      "n","o","p","q","r","s","t","u","v","w","x","y","z">>

Whitespace == {" ", "\t", "\n"}

LowerChar(c) ==
    IF \E i \in 1..26 : UpperLetters[i] = c
    THEN LowerLetters[CHOOSE i \in 1..26 : UpperLetters[i] = c]
    ELSE c

\* str.lower()
Lower(s) == [i \in 1..Len(s) |-> LowerChar(s[i])]

\* the least element of a non-empty set of numbers, 0 for the empty set
Least(S) == IF S = {} THEN 0 ELSE CHOOSE i \in S : \A j \in S : i <= j
Greatest(S) == IF S = {} THEN 0 ELSE CHOOSE i \in S : \A j \in S : j <= i

\* str.strip(): from the first to the last character that is not whitespace
Slice(s, lo, hi) == IF lo = 0 THEN <<>> ELSE SubSeq(s, lo, hi)

Strip(s) ==
    Slice(s, Least({i \in 1..Len(s) : s[i] \notin Whitespace}),
             Greatest({i \in 1..Len(s) : s[i] \notin Whitespace}))

\* "sub in s"; XPath contains() is the same, case-sensitive test
Contains(s, sub) ==
    \E i \in 1..(Len(s) + 1) :
        i + Len(sub) - 1 <= Len(s) /\ SubSeq(s, i, i + Len(sub) - 1) = sub

\* s.replace(old, ""), old non-empty: the leftmost non-overlapping
\* occurrences are dropped; rest[i] is the result for s[i..]
Remove(s, old) ==
    LET rest[i \in 1..(Len(s) + 1)] ==
            IF i > Len(s) THEN <<>>
            ELSE IF i + Len(old) - 1 <= Len(s)
                    /\ SubSeq(s, i, i + Len(old) - 1) = old
                 THEN rest[i + Len(old)]
                 ELSE <<s[i]>> \o rest[i + 1]
    IN  rest[1]

(***************************************************************************)
(* Texts that occur in the modelled runs                                   *)
(***************************************************************************)
sep_colons == <<":", ":">>
kw_button == <<"b","u","t","t","o","n">>
kw_link == <<"l","i","n","k">>
kw_input == <<"i","n","p","u","t">>
kw_field == <<"f","i","e","l","d">>
kw_click == <<"c","l","i","c","k">>
kw_type == <<"t","y","p","e">>
kw_enter == <<"e","n","t","e","r">>
kw_select == <<"s","e","l","e","c","t">>
kw_see == <<"s","e","e">>
kw_verify == <<"v","e","r","i","f","y">>
kw_check == <<"c","h","e","c","k">>
kw_navigate == <<"n","a","v","i","g","a","t","e">>
kw_go_to == <<"g","o"," ","t","o">>
t_login_button == <<"l","o","g","i","n"," ","b","u","t","t","o","n">>
t_Login_Button == <<"L","o","g","i","n"," ","B","u","t","t","o","n">>
t_Login_button_padded == <<" ","L","o","g","i","n"," ","b","u","t","t","o","n"," ">>
t_home_link == <<"h","o","m","e"," ","l","i","n","k">>
t_email_field == <<"e","m","a","i","l"," ","f","i","e","l","d">>
t_login == <<"l","o","g","i","n">>
t_Button == <<"B","u","t","t","o","n">>
t_Enter == <<"E","n","t","e","r">>
t_Welcome == <<"W","e","l","c","o","m","e">>
t_use_login_button == <<"u","s","e"," ","t","h","e"," ","l","o","g","i","n"," ","b","u","t","t","o","n">>
t_reload == <<"r","e","l","o","a","d">>
t_i_navigate_to == <<"I"," ","n","a","v","i","g","a","t","e"," ","t","o"," ">>
t_i_click == <<"I"," ","c","l","i","c","k"," ">>
t_i_see == <<"I"," ","s","e","e"," ">>
t_Background_prefix == <<"B","a","c","k","g","r","o","u","n","d",":"," ">>
url_blank == <<"a","b","o","u","t",":","b","l","a","n","k">>
url_login == <<"h","t","t","p",":","/","/","x","/","l","o","g","i","n">>
url_home == <<"h","t","t","p",":","/","/","x","/","h","o","m","e">>
\* a URL and a description that hold the separator of the cache key
url_login_ns == url_login \o <<":",":","a">>
t_ns_login_button == <<"a",":",":">> \o t_login_button

(***************************************************************************)
(* Selectors.  A selector expression is kept as the way its text starts   *)
(* (lead: "//", "xpath=" or "" for a CSS expression), the pattern it is   *)
(* an instance of, and the text embedded in it.                           *)
(***************************************************************************)
Sel(lead, pat, arg) == [lead |-> lead, pat |-> pat, arg |-> arg]

\* Python None / "" where the code only tests truthiness
NoText == <<>>
NoSel == Sel("", "none", <<>>)
Truthy(sel) == sel # NoSel

\* Variant: the link selectors come before the button selectors
VariantsLinkFirst(text, lowered, button_text, link_text, field_name) ==
    (IF Contains(lowered, kw_link)
     THEN << Sel("//", "a_text", link_text),
             Sel("//", "a_contains", link_text) >>
     ELSE <<>>)
    \o (IF Contains(lowered, kw_button)
        THEN << Sel("//", "button_text", button_text),
                Sel("//", "button_contains", button_text),
                Sel("//", "input_button_value", button_text),
                Sel("//", "input_submit_value", button_text) >>
        ELSE <<>>)
    \o (IF Contains(lowered, kw_input) \/ Contains(lowered, kw_field)
        THEN << Sel("//", "input_placeholder", field_name),
                Sel("//", "input_name", field_name),
                Sel("//", "input_id", field_name),
                Sel("//", "input_label_for", field_name) >>
        ELSE <<>>)
    \o << Sel("//", "any_contains", text) >>

\* Variant: "input" and "field" each add the input selectors
VariantsPerKeyword(text, lowered, button_text, link_text, field_name) ==
    (IF Contains(lowered, kw_button)
     THEN << Sel("//", "button_text", button_text),
             Sel("//", "button_contains", button_text),
             Sel("//", "input_button_value", button_text),
             Sel("//", "input_submit_value", button_text) >>
     ELSE <<>>)
    \o (IF Contains(lowered, kw_link)
        THEN << Sel("//", "a_text", link_text),
                Sel("//", "a_contains", link_text) >>
        ELSE <<>>)
    \o (IF Contains(lowered, kw_input)
        THEN << Sel("//", "input_placeholder", field_name),
                Sel("//", "input_name", field_name),
                Sel("//", "input_id", field_name),
                Sel("//", "input_label_for", field_name) >>
        ELSE <<>>)
    \o (IF Contains(lowered, kw_field)
        THEN << Sel("//", "input_placeholder", field_name),
                Sel("//", "input_name", field_name),
                Sel("//", "input_id", field_name),
                Sel("//", "input_label_for", field_name) >>
        ELSE <<>>)
    \o << Sel("//", "any_contains", text) >>

\* Variant: the generic text search of lines 105-106 left out
VariantsKeywordOnly(text, lowered, button_text, link_text, field_name) ==
    (IF Contains(lowered, kw_button)
     THEN << Sel("//", "button_text", button_text),
             Sel("//", "button_contains", button_text),
             Sel("//", "input_button_value", button_text),
             Sel("//", "input_submit_value", button_text) >>
     ELSE <<>>)
    \o (IF Contains(lowered, kw_link)
        THEN << Sel("//", "a_text", link_text),
                Sel("//", "a_contains", link_text) >>
        ELSE <<>>)
    \o (IF Contains(lowered, kw_input) \/ Contains(lowered, kw_field)
        THEN << Sel("//", "input_placeholder", field_name),
                Sel("//", "input_name", field_name),
                Sel("//", "input_id", field_name),
                Sel("//", "input_label_for", field_name) >>
        ELSE <<>>)

\* the list built by generate_xpath_variations from the stripped text, its
\* lower-case form and the three texts with the keywords removed
Variants(text, lowered, button_text, link_text, field_name) ==
    (IF Contains(lowered, kw_button)
     THEN << Sel("//", "button_text", button_text),
             Sel("//", "button_contains", button_text),
             Sel("//", "input_button_value", button_text),
             Sel("//", "input_submit_value", button_text) >>
     ELSE <<>>)
    \o (IF Contains(lowered, kw_link)
        THEN << Sel("//", "a_text", link_text),
                Sel("//", "a_contains", link_text) >>
        ELSE <<>>)
    \o (IF Contains(lowered, kw_input) \/ Contains(lowered, kw_field)
        THEN << Sel("//", "input_placeholder", field_name),
                Sel("//", "input_name", field_name),
                Sel("//", "input_id", field_name),
                Sel("//", "input_label_for", field_name) >>
        ELSE <<>>)
    \o << Sel("//", "any_contains", text) >>

\* XPathHelper.generate_xpath_variations
generate_xpath_variations(element_description) ==
    Variants(Strip(element_description),
             Lower(Strip(element_description)),
             Strip(Remove(Strip(element_description), kw_button)),
             Strip(Remove(Strip(element_description), kw_link)),
             Strip(Remove(Remove(Strip(element_description), kw_input),
                          kw_field)))

(***************************************************************************)
(* The page: a DOM is a set of elements                                    *)
(***************************************************************************)
El(tag, text) ==
    [tag |-> tag, text |-> text, itype |-> "", value |-> <<>>,
     placeholder |-> <<>>, name |-> <<>>, id |-> <<>>, for |-> <<>>,
     role |-> ""]

DomNames ==
    {"blank", "login_upper", "login_lower", "div_enter", "welcome", "text_only"}

DomOf(d) ==
    CASE d = "blank" -> {}
      [] d = "login_upper" -> { El("button", t_Login_Button) }
      [] d = "login_lower" -> { El("button", t_login) }
      [] d = "div_enter" -> { [El("div", t_Enter) EXCEPT !.role = "button"] }
      [] d = "welcome" -> { El("h1", t_Welcome) }
      [] d = "text_only" -> { El("p", t_use_login_button) }

\* what an XPath / CSS pattern selects (the browser's evaluation)
Matches(dom, sel, e) ==
    CASE sel.pat = "button_text" -> e.tag = "button" /\ e.text = sel.arg
      [] sel.pat = "button_contains" ->
            e.tag = "button" /\ Contains(e.text, sel.arg)
      [] sel.pat = "input_button_value" ->
            e.tag = "input" /\ e.itype = "button" /\ e.value = sel.arg
      [] sel.pat = "input_submit_value" ->
            e.tag = "input" /\ e.itype = "submit" /\ e.value = sel.arg
      [] sel.pat = "a_text" -> e.tag = "a" /\ e.text = sel.arg
      [] sel.pat = "a_contains" -> e.tag = "a" /\ Contains(e.text, sel.arg)
      [] sel.pat = "input_placeholder" ->
            e.tag = "input" /\ e.placeholder = sel.arg
      [] sel.pat = "input_name" -> e.tag = "input" /\ e.name = sel.arg
      [] sel.pat = "input_id" -> e.tag = "input" /\ e.id = sel.arg
      [] sel.pat = "input_label_for" ->
            e.tag = "input" /\
            \E l \in dom : l.tag = "label" /\ l.text = sel.arg /\ l.for = e.id
      [] sel.pat = "any_contains" -> Contains(e.text, sel.arg)
      [] sel.pat = "role_button" -> e.role = "button"
      [] OTHER -> FALSE

Selects(dom, sel) == \E e \in dom : Matches(dom, sel, e)

\* The page is NoPage until the browser is started (self.page is None);
\* close_browser closes the page object but keeps the reference, so a
\* closed page is still "not None"
NoPage == [open |-> FALSE, closed |-> FALSE, url |-> <<>>, dom |-> "blank"]
Page(url, dom) == [open |-> TRUE, closed |-> FALSE, url |-> url, dom |-> dom]

\* the page object answers browser calls
Usable(pg) == pg.open /\ ~pg.closed

\* the locator string handed to the browser and the engine that reads it
LocatorEngine(sel, selector_type) ==
    IF selector_type = "xpath"
    THEN (IF sel.lead = "//" THEN "xpath" ELSE "invalid")
    ELSE (IF sel.lead = "" THEN "css" ELSE "xpath")

\* PlaywrightController.find_element
find_element(pg, sel, selector_type) ==
    /\ Usable(pg)
    /\ LocatorEngine(sel, selector_type) # "invalid"
    /\ Selects(DomOf(pg.dom), sel)

\* PlaywrightController.get_page_url
get_page_url(pg) == IF pg.open THEN pg.url ELSE <<>>

\* PlaywrightController.close_browser
close_browser(pg) == IF pg.open THEN [pg EXCEPT !.closed = TRUE] ELSE pg

(***************************************************************************)
(* Inputs of the modelled runs                                             *)
(***************************************************************************)
Descriptions ==
    {t_login_button, t_Login_Button, t_Login_button_padded, t_home_link,
     t_email_field, t_Welcome, t_ns_login_button}

\* <<>> is the URL read while there is no page
Urls == {<<>>, url_blank, url_login, url_home, url_login_ns}

\* generate_xpath_variations on the descriptions (evaluated once)
Variations == [d \in Descriptions |-> generate_xpath_variations(d)]

(***************************************************************************)
(* ElementCache: the in-memory table, a function from keys to entries      *)
(***************************************************************************)
\* Variant: the description enters the key as written
GenerateKeyVerbatim(url, element_description) ==
    url \o sep_colons \o element_description

\* ElementCache._generate_key; the md5 digest is taken as injective on the
\* combined string, so the key is the combined string itself
GenerateKey(url, element_description) ==
    url \o sep_colons \o Strip(Lower(element_description))

\* the keys of the modelled runs (evaluated once)
Keys == [u \in Urls, d \in Descriptions |-> GenerateKey(u, d)]

NoEntry ==
    [present |-> FALSE, selector |-> NoSel, selector_type |-> "",
     url |-> <<>>, element_description |-> <<>>]

Entry(url, element_description, selector, selector_type) ==
    [present |-> TRUE, selector |-> selector,
     selector_type |-> selector_type, url |-> url,
     element_description |-> element_description]

Lookup(table, key) == IF key \in DOMAIN table THEN table[key] ELSE NoEntry

\* Variant: the write forgets the other entries
StoreForgetting(table, key, entry) == [k \in {key} |-> entry]

Store(table, key, entry) ==
    [k \in (DOMAIN table) \cup {key} |-> IF k = key THEN entry ELSE table[k]]

\* ElementCache.get
CacheGet(table, url, element_description) ==
    Lookup(table, Keys[url, element_description])

\* Variant: the write is lost
CacheSetDropped(table, url, element_description, selector, selector_type) ==
    table

\* ElementCache.set (the in-memory table after the write)
CacheSet(table, url, element_description, selector, selector_type) ==
    Store(table, Keys[url, element_description],
          Entry(url, element_description, selector, selector_type))

EmptyTable == [k \in {} |-> NoEntry]

(***************************************************************************)
(* ElementCache and its backing file.  The file is not there, cannot be    *)
(* opened, holds text that is not JSON, or holds a JSON scalar, list,      *)
(* string or object; self.cache is the Python value json.load made of it.  *)
(***************************************************************************)
\* a file content or a Python value: its kind, the table when it is an
\* object or dict, and what len() gives for it
Content(kind, table, size) == [kind |-> kind, table |-> table, size |-> size]

f_missing == Content("missing", EmptyTable, 0)
f_unreadable == Content("unreadable", EmptyTable, 0)
f_not_json == Content("notjson", EmptyTable, 0)
f_null == Content("scalar", EmptyTable, 0)
f_list == Content("list", EmptyTable, 0)
f_string == Content("string", EmptyTable, 3)
f_object(table) == Content("object", table, Cardinality(DOMAIN table))

PyDict(table) == Content("dict", table, Cardinality(DOMAIN table))

\* json.load on the text of a file that parses
json_load(file) ==
    CASE file.kind = "object" -> PyDict(file.table)
      [] file.kind = "list" -> Content("list", EmptyTable, file.size)
      [] file.kind = "string" -> Content("str", EmptyTable, file.size)

\* json.dump of a value: the text written
json_dump(value) ==
    CASE value.kind = "dict" -> f_object(value.table)
      [] value.kind = "list" -> Content("list", EmptyTable, value.size)
      [] value.kind = "str" -> Content("string", EmptyTable, value.size)

\* ElementCache.load_cache: self.cache after it.  A missing file gives {};
\* open() raising, json.load raising, and len() raising on a scalar in the
\* log line are caught and give {}; a list or a string is kept.
load_cache(file) ==
    IF file.kind \in {"object", "list", "string"}
    THEN json_load(file)
    ELSE PyDict(EmptyTable)

\* what may happen to a write: it succeeds, open() raises and the file is
\* left as it was, or the write raises after open() truncated the file
Disk == {"ok", "open_fails", "write_fails"}

\* ElementCache.save_cache: the file after it; the exceptions are caught
save_cache(value, file, disk) ==
    CASE disk = "ok" -> json_dump(value)
      [] disk = "open_fails" -> file
      [] disk = "write_fails" -> f_not_json

\* Variant: the exception of a failed write leaves save_cache
save_raises_uncaught(disk) == disk # "ok"

\* lines 74-75: whether save_cache raises; every Exception is caught
save_raises(disk) == FALSE

\* what an operation of ElementCache did: whether it raised, self.cache
\* and the file after it, whether its write reached the file, and what it
\* returned (an entry for get, a number of entries for get_stats)
Done(raised, value, file, saved, entry, total_entries) ==
    [raised |-> raised, value |-> value, file |-> file, saved |-> saved,
     entry |-> entry, total_entries |-> total_entries]

\* ElementCache.__init__
ElementCacheInit(file) ==
    Done(FALSE, load_cache(file), file, FALSE, NoEntry, 0)

\* ElementCache.get on self.cache; a list or a string has no get()
ElementCacheGet(value, file, url, element_description) ==
    IF value.kind = "dict"
    THEN Done(FALSE, value, file, FALSE,
              CacheGet(value.table, url, element_description), 0)
    ELSE Done(TRUE, value, file, FALSE, NoEntry, 0)

\* Variant: the file is written before the entry is stored
ElementCacheSetSavingFirst(value, file, url, d, selector, type, disk) ==
    IF value.kind = "dict"
    THEN Done(save_raises(disk),
              PyDict(CacheSet(value.table, url, d, selector, type)),
              save_cache(value, file, disk), disk = "ok", NoEntry, 0)
    ELSE Done(TRUE, value, file, FALSE, NoEntry, 0)

\* ElementCache.set on self.cache, with its save_cache; a list or a
\* string raises TypeError at the item assignment
ElementCacheSet(value, file, url, d, selector, type, disk) ==
    IF value.kind = "dict"
    THEN Done(save_raises(disk),
              PyDict(CacheSet(value.table, url, d, selector, type)),
              save_cache(PyDict(CacheSet(value.table, url, d, selector,
                                         type)), file, disk),
              disk = "ok", NoEntry, 0)
    ELSE Done(TRUE, value, file, FALSE, NoEntry, 0)

\* Variant: the file is written before the table is emptied
clear_cache_saving_first(value, file, disk) ==
    Done(save_raises(disk), PyDict(EmptyTable), save_cache(value, file, disk),
         disk = "ok", NoEntry, 0)

\* ElementCache.clear_cache, with its save_cache
clear_cache(value, file, disk) ==
    Done(save_raises(disk), PyDict(EmptyTable),
         save_cache(PyDict(EmptyTable), file, disk), disk = "ok", NoEntry, 0)

\* ElementCache.get_stats: total_entries is len(self.cache); the size of
\* the file in bytes is not followed
get_stats(value, file) ==
    Done(FALSE, value, file, FALSE, NoEntry, value.size)

(***************************************************************************)
(* The AI detector.  A backend reply is a transport error, text that is    *)
(* not JSON, or a JSON object holding some of the expected keys.           *)
(***************************************************************************)
AIKeys == {"success", "best_selector", "selectors"}

Dict(keys, success, best, selectors) ==
    [keys |-> keys, success |-> success, best_selector |-> best,
     selectors |-> selectors]

\* the dict the except branches of analyze_dom return
FailureDict == Dict(AIKeys, FALSE, NoSel, <<>>)

sel_login_exact == Sel("//", "button_text", t_Login_Button)
sel_role_css == Sel("", "role_button", <<>>)
sel_role_prefixed == Sel("xpath=", "role_button", <<>>)
sel_missing_css == Sel("", "missing", <<>>)

Json(body) == [kind |-> "json", body |-> body]
r_transport == [kind |-> "transport", body |-> FailureDict]
r_not_json == [kind |-> "notjson", body |-> FailureDict]
r_empty_object == Json(Dict({}, FALSE, NoSel, <<>>))
r_no_selectors == Json(Dict({"success", "best_selector"}, FALSE, NoSel, <<>>))
r_declined == Json(Dict(AIKeys, FALSE, NoSel, <<>>))
r_best(sel, others) == Json(Dict(AIKeys, TRUE, sel, <<sel>> \o others))
r_unsure(sel) == Json(Dict(AIKeys, FALSE, sel, <<sel>>))

Replies ==
    { r_transport, r_not_json, r_empty_object, r_no_selectors, r_declined,
      r_best(sel_login_exact, <<>>),
      r_best(sel_role_css, <<>>),
      r_best(sel_role_prefixed, <<>>),
      r_best(sel_missing_css, <<sel_role_css>>),
      r_unsure(sel_login_exact) }

\* AIClient.analyze_dom of the providers: the parsed reply, or the failure
\* dict of the except branches
analyze_dom(reply) ==
    IF reply.kind = "json" THEN reply.body ELSE FailureDict

AIResult(raised, result) == [raised |-> raised, result |-> result]

\* Variant: the fallback list is added but no best selector is chosen
add_fallback_list_only(result, fallback_list) ==
    IF "selectors" \notin result.keys \/ "best_selector" \notin result.keys
    THEN AIResult(TRUE, result)
    ELSE AIResult(FALSE,
                  Dict(result.keys, result.success, result.best_selector,
                       result.selectors \o fallback_list))

\* AIElementDetector._add_fallback_selectors; raised is a KeyError
add_fallback_selectors(result, fallback_list) ==
    IF "selectors" \notin result.keys \/ "best_selector" \notin result.keys
    THEN AIResult(TRUE, result)
    ELSE IF ~Truthy(result.best_selector) /\ fallback_list # <<>>
    THEN AIResult(FALSE,
                  Dict(result.keys, TRUE, fallback_list[1],
                       result.selectors \o fallback_list))
    ELSE AIResult(FALSE,
                  Dict(result.keys, result.success, result.best_selector,
                       result.selectors \o fallback_list))

\* AIElementDetector.find_element_selector, from the dict analyze_dom
\* returned; raised is a KeyError
find_element_selector(result, element_description) ==
    IF "success" \notin result.keys
    THEN AIResult(TRUE, result)
    ELSE IF result.success /\ "best_selector" \notin result.keys
    THEN AIResult(TRUE, result)
    ELSE IF ~result.success \/ ~Truthy(result.best_selector)
    THEN add_fallback_selectors(result, Variations[element_description])
    ELSE AIResult(FALSE, result)

(***************************************************************************)
(* The providers.  settings holds ai_provider and whether the credentials  *)
(* of that provider are all set.                                           *)
(***************************************************************************)
Providers == {"openai", "azure_openai", "anthropic"}

Settings(ai_provider, complete) ==
    [ai_provider |-> ai_provider, complete |-> complete]

\* the outcome of a constructor call: raised, or an object of the class
Client(raised, class) == [raised |-> raised, class |-> class]

\* OpenAIClient(api_key, model): the class defines __init__ only and leaves
\* the abstract method analyze_dom of AIClient undefined, so instantiating
\* it raises TypeError
OpenAIClient == Client(TRUE, "OpenAIClient")

\* AzureOpenAIClient(api_key, endpoint, deployment, api_version)
AzureOpenAIClient == Client(FALSE, "AzureOpenAIClient")

\* AnthropicClient(api_key, model)
AnthropicClient == Client(FALSE, "AnthropicClient")

\* AIElementDetector._initialize_client; raised is the ValueError of a
\* missing credential or an unsupported provider, or what the constructor
\* raised
initialize_client(settings) ==
    IF settings.ai_provider = "openai"
    THEN IF ~settings.complete THEN Client(TRUE, "-") ELSE OpenAIClient
    ELSE IF settings.ai_provider = "azure_openai"
    THEN IF ~settings.complete THEN Client(TRUE, "-") ELSE AzureOpenAIClient
    ELSE IF settings.ai_provider = "anthropic"
    THEN IF ~settings.complete THEN Client(TRUE, "-") ELSE AnthropicClient
    ELSE Client(TRUE, "-")

\* self.client.analyze_dom of a constructed client.  AzureOpenAIClient
\* defines analyze_dom twice and the second definition, the one in force,
\* reads self.model, which its __init__ never sets: the AttributeError is
\* raised inside the try before the request is sent and the except branch
\* returns the failure dict whatever the backend would have replied
client_analyze_dom(class, reply) ==
    IF class = "AzureOpenAIClient" THEN FailureDict ELSE analyze_dom(reply)

\* an AIElementDetector followed on its own: state is "configured" before
\* AIElementDetector() is called, then "raised" or "constructed", and
\* "called" after one find_element_selector, whose backend reply,
\* description and return value it keeps
Detector(settings, state, class, reply, element_description, out) ==
    [settings |-> settings, state |-> state, class |-> class,
     reply |-> reply, element_description |-> element_description,
     out |-> out]

NoDetector ==
    Detector(Settings("anthropic", TRUE), "configured", "-", r_transport,
             <<>>, AIResult(FALSE, FailureDict))

(***************************************************************************)
(* TestExecutor._get_element_selector                                      *)
(***************************************************************************)
NotFound == [found |-> FALSE, selector |-> NoSel, type |-> ""]
Found(selector, type) == [found |-> TRUE, selector |-> selector, type |-> type]

\* One call and what it did: ret (the return value, NotFound for None),
\* src (the tier that decided: CACHE, HEURISTIC, AI, NONE, or RAISED for an
\* exception), the table it leaves, the DOM probes it made in order,
\* whether the AI detector was invoked and with what reply, the URL it
\* read, and the page when it returns.
Call(ret, src, table, probes, ai_invoked, reply, url, description, pg) ==
    [ret |-> ret, src |-> src, table |-> table, probes |-> probes,
     ai_invoked |-> ai_invoked, reply |-> reply, url |-> url,
     description |-> description, page |-> pg]

NoCall ==
    Call(NotFound, "-", EmptyTable, <<>>, FALSE, r_transport, <<>>, <<>>,
         NoPage)

\* a DOM probe: the tier that made it, the selector and what it answered
Probe(tier, pg, sel, type) ==
    [tier |-> tier, sel |-> sel, type |-> type,
     ok |-> find_element(pg, sel, type)]

\* the probes of the first n candidates, in order
Probes(pg, xs, n) == [i \in 1..n |-> Probe("HEURISTIC", pg, xs[i], "xpath")]

\* Variant: the loop over the candidates never returns
FirstHitIgnored(pg, xs) == 0

\* index of the first candidate found on the page, 0 if there is none
FirstHit(pg, xs) ==
    Least({i \in 1..Len(xs) : find_element(pg, xs[i], "xpath")})

\* Variant: only a leading // makes a selector an XPath
InferTypeSlashOnly(selector) == IF selector.lead = "//" THEN "xpath" ELSE "css"

\* selector type inferred for the AI's best selector
InferType(selector) ==
    IF selector.lead = "//" \/ selector.lead = "xpath=" THEN "xpath" ELSE "css"

\* the pages that may be there when the backend has answered: the call
\* takes time and the document may have changed meanwhile
LateDoms == {"login_lower", "blank"}

LatePages(pg) ==
    IF Usable(pg)
    THEN {pg} \cup {[pg EXCEPT !.dom = d] : d \in LateDoms}
    ELSE {pg}

\* Variant: the best selector is cached and returned whatever the probe says
AIProbeUnvalidated(table, url, d, hprobes, reply, pgAI, selector, type) ==
    Call(Found(selector, type), "AI",
         CacheSet(table, url, d, selector, type),
         Append(hprobes, Probe("AI", pgAI, selector, type)), TRUE, reply,
         url, d, pgAI)

\* Variant: the best selector found on the page is returned but not cached
AIProbeNotCaching(table, url, d, hprobes, reply, pgAI, selector, type) ==
    Call(IF find_element(pgAI, selector, type) THEN Found(selector, type)
         ELSE NotFound,
         IF find_element(pgAI, selector, type) THEN "AI" ELSE "NONE", table,
         Append(hprobes, Probe("AI", pgAI, selector, type)), TRUE, reply,
         url, d, pgAI)

\* index of the first selector of xs found on the page, each probed as the
\* type inferred for it; 0 if there is none
FirstListed(pg, xs) ==
    Least({i \in 1..Len(xs) : find_element(pg, xs[i], InferType(xs[i]))})

\* Variant: when the best selector is not found the listed ones are tried
AIProbeTryingListed(table, url, d, hprobes, reply, pgAI, selector, type) ==
    IF find_element(pgAI, selector, type)
       \/ FirstListed(pgAI, reply.body.selectors) = 0
    THEN Call(IF find_element(pgAI, selector, type) THEN Found(selector, type)
              ELSE NotFound,
              IF find_element(pgAI, selector, type) THEN "AI" ELSE "NONE",
              IF find_element(pgAI, selector, type)
              THEN CacheSet(table, url, d, selector, type) ELSE table,
              Append(hprobes, Probe("AI", pgAI, selector, type)), TRUE, reply,
              url, d, pgAI)
    ELSE Call(Found(reply.body.selectors[FirstListed(pgAI, reply.body.selectors)],
                    InferType(reply.body.selectors[
                                  FirstListed(pgAI, reply.body.selectors)])),
              "AI",
              CacheSet(table, url, d,
                       reply.body.selectors[
                           FirstListed(pgAI, reply.body.selectors)],
                       InferType(reply.body.selectors[
                                     FirstListed(pgAI, reply.body.selectors)])),
              Append(Append(hprobes, Probe("AI", pgAI, selector, type)),
                     Probe("AI", pgAI,
                           reply.body.selectors[
                               FirstListed(pgAI, reply.body.selectors)],
                           InferType(reply.body.selectors[
                                  FirstListed(pgAI, reply.body.selectors)]))),
              TRUE, reply, url, d, pgAI)

\* Variant: the best selector is cached before it is probed
AIProbeCachingFirst(table, url, d, hprobes, reply, pgAI, selector, type) ==
    Call(IF find_element(pgAI, selector, type) THEN Found(selector, type)
         ELSE NotFound,
         IF find_element(pgAI, selector, type) THEN "AI" ELSE "NONE",
         CacheSet(table, url, d, selector, type),
         Append(hprobes, Probe("AI", pgAI, selector, type)), TRUE, reply,
         url, d, pgAI)

\* lines 291-295: the AI's best selector is probed, cached and returned
AIProbe(table, url, description, hprobes, reply, pgAI, selector, type) ==
    IF find_element(pgAI, selector, type)
    THEN Call(Found(selector, type), "AI",
              CacheSet(table, url, description, selector, type),
              Append(hprobes, Probe("AI", pgAI, selector, type)), TRUE, reply,
              url, description, pgAI)
    ELSE Call(NotFound, "NONE", table,
              Append(hprobes, Probe("AI", pgAI, selector, type)), TRUE, reply,
              url, description, pgAI)

\* lines 280-298: the AI tier, given what find_element_selector returned
AITier(table, url, description, hprobes, reply, pgAI, ai) ==
    IF ai.raised
    THEN Call(NotFound, "RAISED", table, hprobes, TRUE, reply, url,
              description, pgAI)
    ELSE IF ai.result.success /\ Truthy(ai.result.best_selector)
    THEN AIProbe(table, url, description, hprobes, reply, pgAI,
                 ai.result.best_selector,
                 InferType(ai.result.best_selector))
    ELSE Call(NotFound, "NONE", table, hprobes, TRUE, reply, url,
              description, pgAI)

\* Variant: when no candidate is found the call gives up without the AI
HeuristicTierWithoutAI(table, pg, url, description, xs, first) ==
    IF first > 0
    THEN { Call(Found(xs[first], "xpath"), "HEURISTIC",
                CacheSet(table, url, description, xs[first], "xpath"),
                Probes(pg, xs, first), FALSE, r_transport, url,
                description, pg) }
    ELSE { Call(NotFound, "NONE", table, Probes(pg, xs, Len(xs)), FALSE,
                r_transport, url, description, pg) }

\* Variant: the first candidate generated is cached, the one found returned
HeuristicTierCachingHead(table, pg, url, description, xs, first) ==
    IF first > 0
    THEN { Call(Found(xs[first], "xpath"), "HEURISTIC",
                CacheSet(table, url, description, xs[1], "xpath"),
                Probes(pg, xs, first), FALSE, r_transport, url,
                description, pg) }
    ELSE { AITier(table, url, description, Probes(pg, xs, Len(xs)), x[1],
                  x[2],
                  find_element_selector(analyze_dom(x[1]), description)) :
             x \in Replies \X LatePages(pg) }

\* Variant: the candidate found is returned without being cached
HeuristicTierNotCaching(table, pg, url, description, xs, first) ==
    IF first > 0
    THEN { Call(Found(xs[first], "xpath"), "HEURISTIC", table,
                Probes(pg, xs, first), FALSE, r_transport, url,
                description, pg) }
    ELSE { AITier(table, url, description, Probes(pg, xs, Len(xs)), x[1],
                  x[2],
                  find_element_selector(analyze_dom(x[1]), description)) :
             x \in Replies \X LatePages(pg) }

\* lines 271-285: the heuristic tier, given the candidates and the index of
\* the first one found; when none is found the AI detector is invoked
HeuristicTier(table, pg, url, description, xs, first) ==
    IF first > 0
    THEN { Call(Found(xs[first], "xpath"), "HEURISTIC",
                CacheSet(table, url, description, xs[first], "xpath"),
                Probes(pg, xs, first), FALSE, r_transport, url,
                description, pg) }
    ELSE { AITier(table, url, description, Probes(pg, xs, Len(xs)), x[1],
                  x[2],
                  find_element_selector(analyze_dom(x[1]), description)) :
             x \in Replies \X LatePages(pg) }

\* Variant: a cached selector is used only if it is still on the page
CacheTierRevalidating(table, pg, url, description, cached_result) ==
    IF cached_result.present
       /\ find_element(pg, cached_result.selector,
                       cached_result.selector_type)
    THEN { Call(Found(cached_result.selector, cached_result.selector_type),
                "CACHE", table, <<>>, FALSE, r_transport, url, description,
                pg) }
    ELSE HeuristicTier(table, pg, url, description, Variations[description],
                       FirstHit(pg, Variations[description]))

\* lines 261-269: the cache tier, given the entry ElementCache.get returned
CacheTier(table, pg, url, description, cached_result) ==
    IF cached_result.present
    THEN { Call(Found(cached_result.selector, cached_result.selector_type),
                "CACHE", table, <<>>, FALSE, r_transport, url, description,
                pg) }
    ELSE HeuristicTier(table, pg, url, description, Variations[description],
                       FirstHit(pg, Variations[description]))

\* TestExecutor._get_element_selector: the possible calls
get_element_selector(table, pg, element_description) ==
    CacheTier(table, pg, get_page_url(pg), element_description,
              CacheGet(table, get_page_url(pg), element_description))

(***************************************************************************)
(* Steps, scenarios and feature files (the parser's output)                *)
(***************************************************************************)
Step(action, element_description, expected_text, step_text) ==
    [action |-> action, element_description |-> element_description,
     expected_text |-> expected_text, step_text |-> step_text]

Scenario(name, background_steps, steps) ==
    [name |-> name, background_steps |-> background_steps, steps |-> steps]

Nav(url) == Step("navigate", url, NoText, t_i_navigate_to \o url)
Click(d) == Step("click", d, NoText, t_i_click \o d)
See(t) == Step("verify", t, t, t_i_see \o t)
Unknown(t) == Step("", NoText, NoText, t)

s_login ==
    Scenario("login", <<>>,
             << Nav(url_login), Click(t_login_button), See(t_Welcome) >>)

s_background ==
    Scenario("background",
             << Nav(url_login), Click(t_Login_Button) >>,
             << Click(t_Login_Button), Click(t_Login_button_padded),
                Unknown(t_reload), See(t_Welcome) >>)

\* two short scenarios: a verify step, and a step the parser left unclassified
s_check == Scenario("check", <<>>, << See(t_Welcome) >>)
s_reload == Scenario("reload", <<>>, << Unknown(t_reload) >>)

Features == { << s_login >>, << s_background >>, << s_check, s_reload >> }

\* first match of the regex ["\']([^"\']+)["\'] in s
Quotes == {"\"", "'"}

\* the quote that closes a match opened at i: the next quote, when at
\* least one other character lies between them
Closes(s, i, j) ==
    /\ s[j] \in Quotes /\ j > i + 1
    /\ \A k \in (i + 1)..(j - 1) : s[k] \notin Quotes

Between(s, i) ==
    IF i = 0 THEN NoText
    ELSE SubSeq(s, i + 1, Least({j \in 1..Len(s) : Closes(s, i, j)}) - 1)

QuotedText(s) ==
    Between(s, Least({i \in 1..Len(s) :
                        s[i] \in Quotes /\ \E j \in 1..Len(s) : Closes(s, i, j)}))

(***************************************************************************)
(* Step handlers.  An outcome is the handler's return value (ok), the      *)
(* cache table and page it leaves, and the _get_element_selector call it   *)
(* made (NoCall if none).                                                  *)
(***************************************************************************)
Outcome(ok, table, pg, call) ==
    [ok |-> ok, table |-> table, page |-> pg, call |-> call]

\* the pages a load of url may end in when there was no page object and
\* it fails: start_browser raised, or goto raised on the new page
FailedStart == {NoPage, Page(url_blank, "blank")}

\* PlaywrightController.navigate_to; start_browser runs first when there
\* is no page object, goto on a closed page raises like any failed load
navigate_to(table, pg, url) ==
    IF Usable(pg)
    THEN {Outcome(TRUE, table, Page(url, d), NoCall) : d \in DomNames}
         \cup {Outcome(FALSE, table, pg, NoCall)}
    ELSE IF ~pg.open
    THEN {Outcome(TRUE, table, Page(url, d), NoCall) : d \in DomNames}
         \cup {Outcome(FALSE, table, p, NoCall) : p \in FailedStart}
    ELSE {Outcome(FALSE, table, pg, NoCall)}

\* the url of a navigate step
NavigateUrl(step) ==
    IF step.element_description # NoText THEN step.element_description
    ELSE QuotedText(step.step_text)

\* TestExecutor._handle_navigate_step
handle_navigate_step(step, table, pg, url) ==
    IF url # NoText THEN navigate_to(table, pg, url)
    ELSE {Outcome(FALSE, table, pg, NoCall)}

\* the pages a successful click may leave: the same document changed, or
\* another document
Leads(pg) ==
    {[pg EXCEPT !.dom = d] : d \in DomNames} \cup {Page(url_home, "welcome")}

\* click_element / type_text / select_option / wait_for_element on the
\* selector a call returned: the interaction fails when the locator matches
\* nothing (timeout) and may fail when it matches
Interact(call, after) ==
    IF call.ret.found
       /\ find_element(call.page, call.ret.selector, call.ret.type)
    THEN {Outcome(TRUE, call.table, p, call) : p \in after}
         \cup {Outcome(FALSE, call.table, call.page, call)}
    ELSE {Outcome(FALSE, call.table, call.page, call)}

\* TestExecutor._handle_click_step
handle_click_step(step, table, pg) ==
    IF step.element_description = NoText
    THEN {Outcome(FALSE, table, pg, NoCall)}
    ELSE UNION {Interact(c, Leads(c.page)) :
                  c \in get_element_selector(table, pg,
                                             step.element_description)}

\* TestExecutor._handle_type_step
handle_type_step(step, table, pg) ==
    IF step.element_description = NoText \/ step.expected_text = NoText
    THEN {Outcome(FALSE, table, pg, NoCall)}
    ELSE UNION {Interact(c, {c.page}) :
                  c \in get_element_selector(table, pg,
                                             step.element_description)}

\* TestExecutor._handle_select_step
handle_select_step(step, table, pg) ==
    IF step.element_description = NoText \/ step.expected_text = NoText
    THEN {Outcome(FALSE, table, pg, NoCall)}
    ELSE UNION {Interact(c, {c.page}) :
                  c \in get_element_selector(table, pg,
                                             step.element_description)}

\* Variant: the expected text is resolved like an element description
handle_verify_step_resolving(step, table, pg) ==
    IF step.expected_text = NoText
    THEN {Outcome(FALSE, table, pg, NoCall)}
    ELSE UNION {Interact(c, {c.page}) :
                  c \in get_element_selector(table, pg, step.expected_text)}

\* TestExecutor._handle_verify_step
handle_verify_step(step, table, pg) ==
    IF step.expected_text = NoText
    THEN {Outcome(FALSE, table, pg, NoCall)}
    ELSE {Outcome(find_element(pg,
                               Sel("//", "any_contains", step.expected_text),
                               "xpath"),
                  table, pg, NoCall)}

\* TestExecutor._handle_wait_step
handle_wait_step(step, table, pg) ==
    IF step.element_description # NoText
    THEN UNION {Interact(c, {c.page}) :
                  c \in get_element_selector(table, pg,
                                             step.element_description)}
    ELSE {Outcome(TRUE, table, pg, NoCall)}

\* Variant: a step that matches no keyword is handled as a verify step
handle_generic_step_strict(step_lower, described) ==
    IF Contains(step_lower, kw_click) /\ described THEN "click"
    ELSE IF (Contains(step_lower, kw_type) \/ Contains(step_lower, kw_enter)
             \/ Contains(step_lower, kw_input)) /\ described THEN "type"
    ELSE IF Contains(step_lower, kw_select) /\ described THEN "select"
    ELSE IF Contains(step_lower, kw_navigate) \/ Contains(step_lower, kw_go_to)
    THEN "navigate"
    ELSE "verify"

\* TestExecutor._handle_generic_step: the handler the step is passed to,
\* "unknown" when the text matches no keyword
handle_generic_step(step_lower, described) ==
    IF Contains(step_lower, kw_click) /\ described THEN "click"
    ELSE IF (Contains(step_lower, kw_type) \/ Contains(step_lower, kw_enter)
             \/ Contains(step_lower, kw_input)) /\ described THEN "type"
    ELSE IF Contains(step_lower, kw_select) /\ described THEN "select"
    ELSE IF Contains(step_lower, kw_see) \/ Contains(step_lower, kw_verify)
            \/ Contains(step_lower, kw_check) THEN "verify"
    ELSE IF Contains(step_lower, kw_navigate) \/ Contains(step_lower, kw_go_to)
    THEN "navigate"
    ELSE "unknown"

StepActions == {"navigate", "click", "type", "select", "verify", "wait"}

\* the handler _execute_step ends in
Handler(step) ==
    IF step.action \in StepActions THEN step.action
    ELSE handle_generic_step(Lower(step.step_text),
                             step.element_description # NoText)

Handle(handler, step, table, pg) ==
    CASE handler = "navigate" ->
            handle_navigate_step(step, table, pg, NavigateUrl(step))
      [] handler = "click" -> handle_click_step(step, table, pg)
      [] handler = "type" -> handle_type_step(step, table, pg)
      [] handler = "select" -> handle_select_step(step, table, pg)
      [] handler = "verify" -> handle_verify_step(step, table, pg)
      [] handler = "wait" -> handle_wait_step(step, table, pg)
      [] OTHER -> {Outcome(TRUE, table, pg, NoCall)}

\* TestExecutor._execute_step: the possible outcomes.  An exception raised
\* in a handler (a call with src RAISED) is caught here and the step
\* returns False, which is the ok of that outcome.
execute_step(step, table, pg) == Handle(Handler(step), step, table, pg)

(***************************************************************************)
(* State                                                                   *)
(***************************************************************************)
\* spontaneous page changes modelled per scenario
MaxPageChanges == 1

VARIABLES
    cache,              \* ElementCache.cache
    page,               \* PlaywrightController.page
    total_scenarios, passed_scenarios, failed_scenarios,
    cache_hits, ai_calls,                       \* TestExecutor statistics
    phase,              \* where execute_feature_file / execute_scenario is
    scenarios,          \* the parsed feature file
    si,                 \* index of the current scenario
    idx,                \* index of the next step in its list
    steps_executed, steps_passed, steps_failed, failed_steps,
    results,            \* the TestResult list being built
    changes,            \* spontaneous page changes in the current scenario
    lastRes,            \* history: the latest _get_element_selector call
    prevRes,            \* history: the call before it
    log,                \* history: the steps of the current scenario
    cache_file,         \* the content of ElementCache.cache_file
    self_cache,         \* self.cache of an ElementCache used on its own
    op,                 \* history: the latest operation on that object
    written,            \* history: the entries set on it and not cleared
    exit_code,          \* << n >> once main has called sys.exit(n)
    calls,              \* execute_feature_file calls made on the executor
    xp,                 \* a call of generate_xpath_variations on its own
    det                 \* an AIElementDetector on its own

executor ==
    << cache, page, total_scenarios, passed_scenarios, failed_scenarios,
       cache_hits, ai_calls, phase, scenarios, si, idx, steps_executed,
       steps_passed, steps_failed, failed_steps, results, changes, lastRes,
       prevRes, log, exit_code, calls >>

\* the ElementCache object followed on its own with its file; the runs of
\* the executor follow the table in memory and leave these alone
store == << cache_file, self_cache, op, written >>

vars == << executor, store, xp, det >>

stats == << total_scenarios, passed_scenarios, failed_scenarios >>
counters == << steps_executed, steps_passed, steps_failed, failed_steps >>
history == << lastRes, prevRes, log >>

\* history record of a call: the call, the page and table it started from
\* and the statistics before and after it
Made(call, pg, table, hits_before, hits_after, ai_before, ai_after) ==
    [made |-> TRUE, call |-> call, pg |-> pg, table_before |-> table,
     hits_before |-> hits_before, hits_after |-> hits_after,
     ai_before |-> ai_before, ai_after |-> ai_after]

NoneMade ==
    [made |-> FALSE, call |-> NoCall, pg |-> NoPage,
     table_before |-> EmptyTable, hits_before |-> 0, hits_after |-> 0,
     ai_before |-> 0, ai_after |-> 0]

Earlier(made, call) ==
    [made |-> made, url |-> call.url, description |-> call.description,
     ret |-> call.ret, src |-> call.src]

\* history record of an operation on the ElementCache: its name, its
\* arguments and what it did
Op(name, url, element_description, done) ==
    [name |-> name, url |-> url, element_description |-> element_description,
     raised |-> done.raised, saved |-> done.saved, entry |-> done.entry,
     total_entries |-> done.total_entries]

\* a new ElementCache on a file
Constructed(file) ==
    /\ cache_file = file
    /\ self_cache = load_cache(file)
    /\ op = Op("init", <<>>, <<>>, ElementCacheInit(file))
    /\ written = load_cache(file).table

ExecutorInit ==
    /\ cache = EmptyTable
    /\ page = NoPage
    /\ total_scenarios = 0 /\ passed_scenarios = 0 /\ failed_scenarios = 0
    /\ cache_hits = 0 /\ ai_calls = 0
    /\ phase = "idle"
    /\ scenarios = <<>>
    /\ si = 0 /\ idx = 0
    /\ steps_executed = 0 /\ steps_passed = 0 /\ steps_failed = 0
    /\ failed_steps = <<>>
    /\ results = <<>>
    /\ changes = 0
    /\ lastRes = NoneMade
    /\ prevRes = Earlier(FALSE, NoCall)
    /\ log = <<>>
    /\ exit_code = <<>>
    /\ calls = 0

\* a call of generate_xpath_variations: its argument and, once it has
\* returned, its result
XPathCall(element_description, done, variations) ==
    [description |-> element_description, done |-> done,
     variations |-> variations]

Init ==
    /\ ExecutorInit /\ Constructed(f_missing)
    /\ xp = XPathCall(<<>>, FALSE, <<>>)
    /\ det = NoDetector

\* execute_feature_file up to the scenario loop (main.py calls it once)
ExecuteFeatureFile ==
    /\ phase = "idle"
    /\ \E f \in Features :
        /\ scenarios' = f
        /\ total_scenarios' = Len(f)
    /\ results' = <<>>
    /\ si' = 1
    /\ phase' = "loop"
    /\ UNCHANGED << cache, page, passed_scenarios, failed_scenarios,
                    cache_hits, ai_calls, idx, counters, changes, history >>
    /\ calls' = calls + 1
    /\ UNCHANGED << store, exit_code, xp, det >>

\* execute_feature_file when parse_feature_file raises: [] is returned and
\* the finally clause closes the browser
ParseFails ==
    /\ phase = "idle"
    /\ results' = <<>>
    /\ scenarios' = <<>>
    /\ page' = close_browser(page)
    /\ phase' = "returned"
    /\ UNCHANGED << cache, stats, cache_hits, ai_calls, si, idx, counters,
                    changes, history >>
    /\ calls' = calls + 1
    /\ UNCHANGED << store, exit_code, xp, det >>

\* Variant: the background steps are left out
StartScenarioAtMainSteps ==
    /\ phase = "loop" /\ si <= Len(scenarios)
    /\ steps_executed' = 0 /\ steps_passed' = 0 /\ steps_failed' = 0
    /\ failed_steps' = <<>>
    /\ idx' = 1
    /\ phase' = "steps"
    /\ changes' = 0
    /\ log' = <<>>
    /\ UNCHANGED << cache, page, stats, cache_hits, ai_calls, scenarios, si,
                    results, lastRes, prevRes >>
    /\ UNCHANGED << store, exit_code, calls, xp, det >>

\* execute_scenario: the locals are initialised
StartScenario ==
    /\ phase = "loop" /\ si <= Len(scenarios)
    /\ steps_executed' = 0 /\ steps_passed' = 0 /\ steps_failed' = 0
    /\ failed_steps' = <<>>
    /\ idx' = 1
    /\ phase' = IF scenarios[si].background_steps # <<>>
                THEN "background" ELSE "steps"
    /\ changes' = 0
    /\ log' = <<>>
    /\ UNCHANGED << cache, page, stats, cache_hits, ai_calls, scenarios, si,
                    results, lastRes, prevRes >>
    /\ UNCHANGED << store, exit_code, calls, xp, det >>

\* the effect of _execute_step on everything but the step counters, for
\* one of its outcomes; a call that returned from the heuristic or the AI
\* tier went through ElementCache.set, which saves the table to the file
RunStep(background, o) ==
    /\ cache' = o.table
    /\ page' = o.page
    /\ cache_hits' = cache_hits + (IF o.call.src = "CACHE" THEN 1 ELSE 0)
    /\ ai_calls' = ai_calls + (IF o.call.ai_invoked THEN 1 ELSE 0)
    /\ IF o.call.src # "-"
       THEN /\ lastRes' = Made(o.call, page, cache, cache_hits, cache_hits',
                               ai_calls, ai_calls')
            /\ prevRes' = Earlier(lastRes.made, lastRes.call)
       ELSE UNCHANGED << lastRes, prevRes >>
    /\ log' = Append(log, [background |-> background, index |-> idx,
                           ok |-> o.ok])
    /\ IF o.call.src \in {"HEURISTIC", "AI"}
       THEN \E disk \in Disk :
               cache_file' = save_cache(PyDict(o.table), cache_file, disk)
       ELSE UNCHANGED cache_file

\* the text execute_scenario appends to failed_steps for a failed step
FailedStepText(entry) ==
    IF entry.background THEN t_Background_prefix \o entry.text
    ELSE entry.text

\* Variant: a failed background step is counted but not listed
CountListingMainOnly(ok, entry) ==
    /\ steps_executed' = steps_executed + 1
    /\ steps_passed' = steps_passed + (IF ok THEN 1 ELSE 0)
    /\ steps_failed' = steps_failed + (IF ok THEN 0 ELSE 1)
    /\ failed_steps' =
          IF ok \/ entry.background THEN failed_steps
          ELSE Append(failed_steps, FailedStepText(entry))

\* Variant: a failed background step is not counted as failed
CountMainOnly(ok, entry) ==
    /\ steps_executed' = steps_executed + 1
    /\ steps_passed' = steps_passed + (IF ok THEN 1 ELSE 0)
    /\ steps_failed' =
            steps_failed + (IF ok \/ entry.background THEN 0 ELSE 1)
    /\ failed_steps' =
          IF ok THEN failed_steps
          ELSE Append(failed_steps, FailedStepText(entry))

\* the counters after a step that returned ok
Count(ok, entry) ==
    /\ steps_executed' = steps_executed + 1
    /\ steps_passed' = steps_passed + (IF ok THEN 1 ELSE 0)
    /\ steps_failed' = steps_failed + (IF ok THEN 0 ELSE 1)
    /\ failed_steps' =
          IF ok THEN failed_steps
          ELSE Append(failed_steps, FailedStepText(entry))

\* Variant: a failed background step ends the background loop
BackgroundStepBreaks ==
    /\ phase = "background"
    /\ \E o \in execute_step(scenarios[si].background_steps[idx], cache, page) :
          /\ RunStep(TRUE, o)
          /\ Count(o.ok, [background |-> TRUE,
                          text |-> scenarios[si].background_steps[idx].step_text])
          /\ IF o.ok /\ idx < Len(scenarios[si].background_steps)
             THEN idx' = idx + 1 /\ UNCHANGED phase
             ELSE idx' = 1 /\ phase' = "steps"
    /\ UNCHANGED << stats, scenarios, si, results, changes >>
    /\ UNCHANGED << self_cache, op, written, exit_code, calls, xp, det >>

\* one iteration of the background loop of execute_scenario
BackgroundStep ==
    /\ phase = "background"
    /\ \E o \in execute_step(scenarios[si].background_steps[idx], cache, page) :
          /\ RunStep(TRUE, o)
          /\ Count(o.ok, [background |-> TRUE,
                          text |-> scenarios[si].background_steps[idx].step_text])
    /\ IF idx < Len(scenarios[si].background_steps)
       THEN idx' = idx + 1 /\ UNCHANGED phase
       ELSE idx' = 1 /\ phase' = "steps"
    /\ UNCHANGED << stats, scenarios, si, results, changes >>
    /\ UNCHANGED << self_cache, op, written, exit_code, calls, xp, det >>

\* Variant: the loop goes on after a failed step
NextIndexNoBreak(ok, n) == idx + 1

\* the index of the next main step: a failed step ends the loop
NextIndex(ok, n) == IF ok THEN idx + 1 ELSE n + 1

\* one iteration of the main loop of execute_scenario
MainStep ==
    /\ phase = "steps" /\ idx <= Len(scenarios[si].steps)
    /\ \E o \in execute_step(scenarios[si].steps[idx], cache, page) :
          /\ RunStep(FALSE, o)
          /\ Count(o.ok, [background |-> FALSE,
                          text |-> scenarios[si].steps[idx].step_text])
          /\ idx' = NextIndex(o.ok, Len(scenarios[si].steps))
    /\ UNCHANGED << stats, phase, scenarios, si, results, changes >>
    /\ UNCHANGED << self_cache, op, written, exit_code, calls, xp, det >>

\* The TestResult built at the end of execute_scenario.  No exception
\* reaches its except clause: _execute_step catches every Exception, so
\* error_message stays None.
TestResult(name, error_message) ==
    [scenario_name |-> name,
     passed |-> steps_failed = 0 /\ error_message = NoText,
     steps_executed |-> steps_executed, steps_passed |-> steps_passed,
     steps_failed |-> steps_failed, error_message |-> error_message,
     failed_steps |-> failed_steps, log |-> log]

\* execute_scenario returns its TestResult; execute_feature_file counts it
FinishScenario ==
    /\ phase = "steps" /\ idx > Len(scenarios[si].steps)
    /\ \E r \in {TestResult(scenarios[si].name, NoText)} :
          /\ results' = Append(results, r)
          /\ passed_scenarios' = passed_scenarios + (IF r.passed THEN 1 ELSE 0)
          /\ failed_scenarios' = failed_scenarios + (IF r.passed THEN 0 ELSE 1)
    /\ si' = si + 1
    /\ phase' = "loop"
    /\ UNCHANGED << cache, page, total_scenarios, cache_hits, ai_calls,
                    scenarios, idx, counters, changes, history >>
    /\ UNCHANGED << store, exit_code, calls, xp, det >>

\* execute_feature_file returns the results; finally closes the browser
FinishFeature ==
    /\ phase = "loop" /\ si > Len(scenarios)
    /\ page' = close_browser(page)
    /\ phase' = "returned"
    /\ UNCHANGED << cache, stats, cache_hits, ai_calls, scenarios, si, idx,
                    counters, results, changes, history >>
    /\ UNCHANGED << store, exit_code, calls, xp, det >>

\* the page changes by itself between two steps (scripts, reloads)
PageChanges ==
    /\ \/ phase = "background"
       \/ phase = "steps" /\ idx <= Len(scenarios[si].steps)
    /\ Usable(page)
    /\ changes < MaxPageChanges
    /\ changes' = changes + 1
    /\ \E d \in DomNames \ {page.dom} : page' = [page EXCEPT !.dom = d]
    /\ UNCHANGED << cache, stats, cache_hits, ai_calls, phase, scenarios, si,
                    idx, counters, results, history >>
    /\ UNCHANGED << store, exit_code, calls, xp, det >>

\* Variant: the exit code does not look at the results
sys_exit_zero(result_list) == 0

\* main.py 92-99: the exit code for the list execute_feature_file returned
sys_exit(result_list) ==
    IF Cardinality({k \in 1..Len(result_list) : ~result_list[k].passed}) > 0
    THEN 1 ELSE 0

\* main, after execute_feature_file has returned
MainExits ==
    /\ phase = "returned"
    /\ exit_code' = << sys_exit(results) >>
    /\ phase' = "exited"
    /\ UNCHANGED << cache, page, stats, cache_hits, ai_calls, scenarios, si,
                    idx, counters, results, changes, history, store, calls,
                    xp, det >>

\* the browser session dies between two steps (crash, window closed): the
\* page object stays, and every driver call on it raises from then on
BrowserCrashes ==
    /\ \/ phase = "background"
       \/ phase = "steps" /\ idx <= Len(scenarios[si].steps)
    /\ Usable(page)
    /\ page' = [page EXCEPT !.closed = TRUE]
    /\ UNCHANGED << cache, stats, cache_hits, ai_calls, phase, scenarios, si,
                    idx, counters, results, changes, history >>
    /\ UNCHANGED << store, exit_code, calls, xp, det >>

Next ==
    \/ ExecuteFeatureFile
    \/ ParseFails
    \/ StartScenario
    \/ BackgroundStep
    \/ MainStep
    \/ FinishScenario
    \/ FinishFeature
    \/ PageChanges
    \/ BrowserCrashes
    \/ MainExits

Spec == Init /\ [][Next]_vars

(***************************************************************************)
(* One TestExecutor on which execute_feature_file is called again after it *)
(* has returned (a caller other than main.py, which exits after one call). *)
(***************************************************************************)
\* execute_feature_file calls followed on one executor
MaxCalls == 2

\* the caller is back in control and calls execute_feature_file again
CallAgain ==
    /\ phase = "returned"
    /\ calls < MaxCalls
    /\ phase' = "idle"
    /\ UNCHANGED << cache, page, stats, cache_hits, ai_calls, scenarios, si,
                    idx, counters, results, changes, history, store,
                    exit_code, calls, xp, det >>

ReuseNext ==
    \/ ExecuteFeatureFile
    \/ ParseFails
    \/ StartScenario
    \/ BackgroundStep
    \/ MainStep
    \/ FinishScenario
    \/ FinishFeature
    \/ PageChanges
    \/ BrowserCrashes
    \/ CallAgain

ReuseSpec == Init /\ [][ReuseNext]_vars

(***************************************************************************)
(* An ElementCache used on its own: constructed on a file that may hold    *)
(* anything, then read, written, cleared and constructed again.            *)
(***************************************************************************)
CacheUrls == {url_login, url_home}
SetDescriptions == {t_login_button, t_Login_Button}
GetDescriptions == SetDescriptions \cup {t_home_link}
CacheSelectors == { << sel_login_exact, "xpath" >>, << sel_role_css, "css" >> }

\* the (url, description) pairs set is called with, and those get is
\* called with: the products of the sets above and two pairs whose URL or
\* description holds "::"
SeparatorPairs ==
    { << url_login_ns, t_login_button >>, << url_login, t_ns_login_button >> }
SetPairs == ({url_login} \X SetDescriptions) \cup SeparatorPairs
GetPairs == (CacheUrls \X GetDescriptions) \cup SeparatorPairs

\* the files an ElementCache may be constructed on
InitialFiles ==
    { f_missing, f_unreadable, f_not_json, f_null, f_list, f_string,
      f_object(EmptyTable),
      f_object(CacheSet(EmptyTable, url_login, t_Login_Button,
                        sel_role_css, "css")) }

CacheInit ==
    /\ ExecutorInit /\ xp = XPathCall(<<>>, FALSE, <<>>) /\ det = NoDetector
    /\ \E f \in InitialFiles : Constructed(f)

\* the state after an operation
After(name, url, element_description, done, entries) ==
    /\ self_cache' = done.value
    /\ cache_file' = done.file
    /\ op' = Op(name, url, element_description, done)
    /\ written' = entries
    /\ UNCHANGED << executor, xp, det >>

\* ElementCache(cache_file): a new object on the file as it is
Construct ==
    After("init", <<>>, <<>>, ElementCacheInit(cache_file),
          load_cache(cache_file).table)

Get ==
    \E ud \in GetPairs :
        After("get", ud[1], ud[2],
              ElementCacheGet(self_cache, cache_file, ud[1], ud[2]), written)

Set ==
    \E ud \in SetPairs, st \in CacheSelectors, disk \in Disk :
        After("set", ud[1], ud[2],
              ElementCacheSet(self_cache, cache_file, ud[1], ud[2], st[1],
                              st[2], disk),
              CacheSet(written, ud[1], ud[2], st[1], st[2]))

ClearCache ==
    \E disk \in Disk :
        After("clear", <<>>, <<>>, clear_cache(self_cache, cache_file, disk),
              EmptyTable)

GetStats ==
    After("stats", <<>>, <<>>, get_stats(self_cache, cache_file), written)

CacheNext ==
    \/ Construct
    \/ Get
    \/ Set
    \/ ClearCache
    \/ GetStats

CacheSpec == CacheInit /\ [][CacheNext]_vars

(***************************************************************************)
(* generate_xpath_variations on its own, called on descriptions made of    *)
(* up to MaxWords words, with and without the keywords it looks for.       *)
(***************************************************************************)
MaxWords == 3

XPathWords == {t_login, t_Enter, kw_button, t_Button, kw_link, kw_input,
               kw_field}

RECURSIVE Join(_)
Join(ws) ==
    IF Len(ws) = 1 THEN ws[1] ELSE ws[1] \o <<" ">> \o Join(Tail(ws))

WordLists(n) == UNION {[1..k -> XPathWords] : k \in 1..n}

\* the descriptions: one to MaxWords words, a word padded with blanks, the
\* empty text and a blank
XPathDescriptions ==
    {Join(ws) : ws \in WordLists(MaxWords)}
    \cup {<<" ">> \o Join(ws) \o <<" ", " ">> : ws \in WordLists(1)}
    \cup {<<>>, <<" ">>}

XPathInit ==
    /\ ExecutorInit /\ Constructed(f_missing)
    /\ \E d \in XPathDescriptions : xp = XPathCall(d, FALSE, <<>>)
    /\ det = NoDetector

Generate ==
    /\ ~xp.done
    /\ xp' = XPathCall(xp.description, TRUE,
                       generate_xpath_variations(xp.description))
    /\ UNCHANGED << executor, store, det >>

XPathNext == Generate

XPathSpec == XPathInit /\ [][XPathNext]_vars

(***************************************************************************)
(* An AIElementDetector on its own: construction under each configuration, *)
(* then one find_element_selector call.                                    *)
(***************************************************************************)
ProviderValues == Providers \cup {"gemini"}

DetectorInit ==
    /\ ExecutorInit /\ Constructed(f_missing)
    /\ xp = XPathCall(<<>>, FALSE, <<>>)
    /\ \E p \in ProviderValues, c \in BOOLEAN :
          det = [NoDetector EXCEPT !.settings = Settings(p, c)]

\* AIElementDetector.__init__
ConstructDetector ==
    /\ det.state = "configured"
    /\ det' = [det EXCEPT
                 !.state = IF initialize_client(det.settings).raised
                           THEN "raised" ELSE "constructed",
                 !.class = initialize_client(det.settings).class]
    /\ UNCHANGED << executor, store, xp >>

\* AIElementDetector.find_element_selector
FindElementSelector ==
    /\ det.state = "constructed"
    /\ \E reply \in Replies, d \in Descriptions :
          det' = [det EXCEPT
                    !.state = "called",
                    !.reply = reply,
                    !.element_description = d,
                    !.out = find_element_selector(
                                client_analyze_dom(det.class, reply), d)]
    /\ UNCHANGED << executor, store, xp >>

DetectorNext == ConstructDetector \/ FindElementSelector

DetectorSpec == DetectorInit /\ [][DetectorNext]_vars

(***************************************************************************)
(* Properties of _get_element_selector.  lastRes is the latest call,       *)
(* prevRes the one before it.                                              *)
(***************************************************************************)
\* the latest two calls read the same URL and got the same description
Repeated ==
    /\ lastRes.made /\ prevRes.made
    /\ lastRes.call.url = prevRes.url
    /\ lastRes.call.description = prevRes.description

\* the latest call returned what the one before it returned, from the
\* cache: no probe, no AI call, one more cache hit
RepeatServedFromCache ==
    /\ lastRes.call.ret = prevRes.ret
    /\ lastRes.call.src = "CACHE"
    /\ lastRes.call.probes = <<>>
    /\ ~lastRes.call.ai_invoked
    /\ lastRes.ai_after = lastRes.ai_before
    /\ lastRes.hits_after = lastRes.hits_before + 1

HeuristicFound(call) ==
    \E i \in 1..Len(call.probes) :
        call.probes[i].tier = "HEURISTIC" /\ call.probes[i].ok

\* C2: in a call that misses the cache, if a heuristic candidate exists on
\* the page when it is probed, the AI detector is not invoked and ai_calls
\* is unchanged.
C2_NoAICallWhenHeuristicFound ==
    lastRes.made /\ lastRes.call.src # "CACHE" /\ HeuristicFound(lastRes.call)
    => /\ ~lastRes.call.ai_invoked
       /\ lastRes.ai_after = lastRes.ai_before
       /\ lastRes.call.src = "HEURISTIC"

\* C2: a cache miss where the second candidate probed is on the page
C2_Witness ==
    /\ lastRes.made /\ lastRes.call.src = "HEURISTIC"
    /\ Len(lastRes.call.probes) = 2
    /\ HeuristicFound(lastRes.call)
    /\ lastRes.ai_after = 0

\* the generic contains-text selector of a description (lines 105-106)
GenericSelector(element_description) ==
    Sel("//", "any_contains", Strip(element_description))

\* C3: if the generic contains-text selector of the description exists on
\* the page the call probes, the call returns a selector, whatever the AI
\* backend would answer.
C3_GenericSelectorOnPageGivesSelector ==
    lastRes.made
    /\ find_element(lastRes.pg, GenericSelector(lastRes.call.description),
                    "xpath")
    => /\ lastRes.call.ret.found
       /\ lastRes.call.src \in {"CACHE", "HEURISTIC"}

\* C3: every keyword candidate failed and the generic selector was found
C3_Witness ==
    /\ lastRes.made /\ lastRes.call.src = "HEURISTIC"
    /\ lastRes.call.ret.selector = GenericSelector(lastRes.call.description)
    /\ Len(lastRes.call.probes) > 1
    /\ \A i \in 1..(Len(lastRes.call.probes) - 1) : ~lastRes.call.probes[i].ok

\* two descriptions that differ at most in letter case and in leading or
\* trailing whitespace
SameButCaseAndPadding(d1, d2) == Lower(Strip(d1)) = Lower(Strip(d2))

\* that relation on the modelled descriptions (evaluated once)
Alike == [d1 \in Descriptions, d2 \in Descriptions |->
            SameButCaseAndPadding(d1, d2)]

\* the number of URLs and pairs of such descriptions whose two keys differ
UnequalKeys ==
    Cardinality({x \in Urls \X (Descriptions \X Descriptions) :
                    /\ Alike[x[2][1], x[2][2]]
                    /\ GenerateKey(x[1], x[2][1]) # GenerateKey(x[1], x[2][2])})

\* the number of descriptions and pairs of different URLs whose two keys
\* are equal
SharedKeys ==
    Cardinality({x \in Descriptions \X (Urls \X Urls) :
                    /\ x[2][1] # x[2][2]
                    /\ GenerateKey(x[2][1], x[1]) = GenerateKey(x[2][2], x[1])})

\* C4: at one URL the key of two descriptions that differ only in letter
\* case or outer whitespace is the same, so get(u, d2) on the current table
\* after set(u, d1) returns the entry that set stored; the keys of one
\* description at two different URLs differ.
C4_KeyNormalisesDescription ==
    /\ UnequalKeys = 0
    /\ SharedKeys = 0
    /\ \A u \in Urls : \A d1, d2 \in Descriptions :
          Alike[d1, d2] =>
             CacheGet(CacheSet(cache, u, d1, sel_login_exact, "xpath"), u, d2)
               = Entry(u, d1, sel_login_exact, "xpath")

\* C4: a call was served the entry that was stored under a description
\* written differently
C4_Witness ==
    /\ lastRes.made /\ lastRes.call.src = "CACHE"
    /\ CacheGet(lastRes.table_before, lastRes.call.url,
                lastRes.call.description).element_description
         # lastRes.call.description
    /\ Alike[CacheGet(lastRes.table_before, lastRes.call.url,
                     lastRes.call.description).element_description,
            lastRes.call.description]

(***************************************************************************)
(* The two runs of the scenario navigate / click "login button" / see     *)
(* "Welcome"                                                               *)
(***************************************************************************)
\* The click step of s_login resolved "login button" from an empty cache
\* on the page dom its navigate step loaded, and the page changed neither
\* by itself nor while the call was running.
LoginRun(dom) ==
    /\ scenarios = << s_login >>
    /\ lastRes.made
    /\ lastRes.call.description = t_login_button
    /\ lastRes.table_before = EmptyTable
    /\ lastRes.pg = Page(url_login, dom)
    /\ lastRes.call.page = lastRes.pg
    /\ changes = 0

\* when the click was handed a selector that is on the page, the browser
\* clicked and the page then shows "Welcome"
ClickShowsWelcome ==
    lastRes.call.ret.found
    /\ find_element(lastRes.call.page, lastRes.call.ret.selector,
                    lastRes.call.ret.type)
    => page.dom = "welcome"

\* C5 as stated: on a page with <button>Login Button</button> that shows
\* "Welcome" after the click, "login button" is resolved by the heuristic
\* tier with no AI call, and the scenario is reported passed with 3 steps
\* executed and 3 passed.
C5_AsStated ==
    LoginRun("login_upper") =>
       /\ lastRes.call.src = "HEURISTIC"
       /\ ~lastRes.call.ai_invoked
       /\ ai_calls = 0
       /\ Len(results) = 1 /\ ClickShowsWelcome =>
             /\ results[1].passed
             /\ results[1].steps_executed = 3
             /\ results[1].steps_passed = 3

\* analyze_dom returned the failure dict: the backend call raised, or its
\* reply was not JSON, or it reported no success and no selector
AIFailing(call) == call.ai_invoked /\ analyze_dom(call.reply) = FailureDict

\* C6: on a page whose only button is <div role="button">Enter</div>, with
\* the AI backend failing, resolution returns None, the click step fails,
\* the verify step is not attempted, and the result has one passed step
\* (navigate) and one failed step (click).
C6_UnresolvedClickStopsScenario ==
    LoginRun("div_enter") /\ AIFailing(lastRes.call) =>
       /\ lastRes.call.ret = NotFound
       /\ lastRes.call.src = "NONE"
       /\ log = << [background |-> FALSE, index |-> 1, ok |-> TRUE],
                   [background |-> FALSE, index |-> 2, ok |-> FALSE] >>
       /\ steps_executed = 2 /\ steps_passed = 1 /\ steps_failed = 1
       /\ phase = "steps" => idx > Len(s_login.steps)
       /\ Len(results) = 1 =>
             /\ ~results[1].passed
             /\ results[1].steps_executed = 2
             /\ results[1].steps_passed = 1
             /\ results[1].steps_failed = 1
             /\ results[1].failed_steps = << s_login.steps[2].step_text >>

\* C6: that run has returned its result
C6_Witness ==
    /\ LoginRun("div_enter") /\ AIFailing(lastRes.call)
    /\ lastRes.call.reply = r_transport
    /\ Len(results) = 1
    /\ phase = "returned"

\* the first heuristic candidate of a description
FirstCandidate(element_description) == Variations[element_description][1]

\* the backend's answer holds no best selector
NoBestFromAI(call) == ~Truthy(analyze_dom(call.reply).best_selector)

\* the backend's answer names a best selector but reports no success
BestWithoutSuccess(call) ==
    ~NoBestFromAI(call) /\ ~analyze_dom(call.reply).success

\* the selector the AI tier probes: the backend's best selector, or the
\* first heuristic candidate when there is none
Candidate(call) ==
    IF NoBestFromAI(call) THEN FirstCandidate(call.description)
    ELSE analyze_dom(call.reply).best_selector

\* a call that returns cand if it is on the page, caching it, and None if
\* it is not, caching nothing
ReturnsIfOnPage(call, table_before, cand, type) ==
    IF find_element(call.page, cand, type)
    THEN /\ call.ret = Found(cand, type)
         /\ call.src = "AI"
         /\ CacheGet(call.table, call.url, call.description)
              = Entry(call.url, call.description, cand, type)
    ELSE /\ call.ret = NotFound
         /\ call.src = "NONE"
         /\ call.table = table_before

\* C7 as stated: when the cache misses, every heuristic candidate fails
\* the probe and the AI tier yields no validated candidate, the call
\* returns the first heuristic candidate without DOM validation.
C7_AsStated ==
    lastRes.made /\ lastRes.call.ai_invoked /\ lastRes.call.src # "RAISED"
    /\ ~(~NoBestFromAI(lastRes.call) /\ ~BestWithoutSuccess(lastRes.call)
         /\ find_element(lastRes.call.page, Candidate(lastRes.call),
                         InferType(Candidate(lastRes.call))))
    => lastRes.call.ret
         = Found(FirstCandidate(lastRes.call.description), "xpath")

\* C7, amended: when the cache misses and every heuristic candidate fails
\* the probe, a call that returns from the AI tier returns only a selector
\* that the tier's own probe found on the page.  When the backend's answer
\* holds no usable best selector the first heuristic candidate takes its
\* place and is probed like any AI answer: it is returned and cached if it
\* is on the page then, and otherwise the call returns None and caches
\* nothing.  When the answer names a best selector but reports no success,
\* nothing is probed and the call returns None.
C7_FallbackCandidateIsValidated ==
    lastRes.made /\ lastRes.call.ai_invoked /\ lastRes.call.src # "RAISED"
    => IF BestWithoutSuccess(lastRes.call)
       THEN /\ lastRes.call.ret = NotFound
            /\ lastRes.call.src = "NONE"
            /\ lastRes.call.table = lastRes.table_before
            /\ \A i \in 1..Len(lastRes.call.probes) :
                  lastRes.call.probes[i].tier = "HEURISTIC"
       ELSE ReturnsIfOnPage(lastRes.call, lastRes.table_before,
                            Candidate(lastRes.call),
                            InferType(Candidate(lastRes.call)))

\* C7: the fallback candidate, absent when the heuristic tier probed it,
\* was on the page when the AI tier probed it again, and was returned
C7_Witness ==
    /\ lastRes.made /\ lastRes.call.ai_invoked
    /\ NoBestFromAI(lastRes.call)
    /\ lastRes.call.ret
         = Found(FirstCandidate(lastRes.call.description), "xpath")
    /\ ~lastRes.call.probes[1].ok
    /\ lastRes.call.probes[1].sel = FirstCandidate(lastRes.call.description)

\* the backend call raised, or its reply is not JSON, or it is JSON that
\* lacks an expected field
AICallFailed(reply) ==
    reply.kind \in {"transport", "notjson"} \/ reply.body.keys # AIKeys

\* C8 as stated: when the AI call fails (transport error, not JSON, JSON
\* lacking the expected fields) the call completes normally and no
\* exception leaves _get_element_selector.
C8_AsStated ==
    lastRes.made /\ lastRes.call.ai_invoked
    /\ AICallFailed(lastRes.call.reply)
    => lastRes.call.src = "NONE" \/ lastRes.call.src = "AI"

(***************************************************************************)
(* Properties of execute_scenario.  log holds one entry per executed step, *)
(* in order, and is kept in the TestResult.                                *)
(***************************************************************************)
\* a failed main step is the last step executed
StopsAtFailedMainStep(l) ==
    \A i \in 1..Len(l) : ~l[i].background /\ ~l[i].ok => i = Len(l)

\* C9: once a main step fails no later main step is executed, and
\* steps_executed counts the steps up to and including that step.
C9_StopsAtFirstFailedMainStep ==
    /\ phase \in {"background", "steps"} =>
          StopsAtFailedMainStep(log) /\ steps_executed = Len(log)
    /\ \A k \in 1..Len(results) :
          /\ StopsAtFailedMainStep(results[k].log)
          /\ results[k].steps_executed = Len(results[k].log)

\* C9: a scenario with background steps ended at its first main step
C9_Witness ==
    /\ Len(results) = 1
    /\ scenarios = << s_background >>
    /\ results[1].steps_executed = Len(s_background.background_steps) + 1
    /\ ~results[1].log[results[1].steps_executed].ok
    /\ results[1].log[1].ok /\ results[1].log[2].ok

\* no step of the log failed
NoStepFailed(l) == \A i \in 1..Len(l) : l[i].ok

\* C10: a scenario is reported passed if and only if none of its executed
\* steps, background or main, failed and error_message is None.
C10_PassedIffNoStepFailed ==
    \A k \in 1..Len(results) :
        results[k].passed
        <=> NoStepFailed(results[k].log)
            /\ results[k].error_message = NoText

\* C10: a scenario reported failed whose only failed step is a background
\* step
C10_Witness ==
    /\ Len(results) = 1
    /\ ~results[1].passed
    /\ ~NoStepFailed(results[1].log)
    /\ \A i \in 1..Len(results[1].log) :
          ~results[1].log[i].ok => results[1].log[i].background
    /\ results[1].steps_executed = 6

\* the i-th executed step of a scenario with n background steps is the
\* i-th background step if i <= n and the (i - n)-th main step otherwise
InListOrder(l, n) ==
    \A i \in 1..Len(l) :
        IF i <= n
        THEN l[i].background /\ l[i].index = i
        ELSE ~l[i].background /\ l[i].index = i - n

\* C11: execute_scenario executes the background steps in list order
\* before any main step and the main steps in list order; the steps run
\* one after the other (each is logged when its handler has returned).
C11_BackgroundThenMainInOrder ==
    /\ phase \in {"background", "steps"} =>
          /\ InListOrder(log, Len(scenarios[si].background_steps))
          /\ phase = "background" => Len(log) = idx - 1
          /\ phase = "steps" =>
                Len(log) >= Len(scenarios[si].background_steps)
    /\ \A k \in 1..Len(results) :
          /\ InListOrder(results[k].log, Len(scenarios[k].background_steps))
          /\ Len(results[k].log) >= Len(scenarios[k].background_steps)

\* C11: a scenario ran both its background steps and all its main steps
C11_Witness ==
    /\ Len(results) = 1
    /\ scenarios = << s_background >>
    /\ Len(results[1].log)
         = Len(s_background.background_steps) + Len(s_background.steps)

\* the failed steps of a log, in order
Failures(l) == SelectSeq(l, LAMBDA e : ~e.ok)

\* the step of scenario sc that a log entry stands for
StepOf(sc, e) ==
    IF e.background THEN sc.background_steps[e.index] ELSE sc.steps[e.index]

\* failed_steps and steps_failed hold exactly the failed steps of the log:
\* the step text, after "Background: " for a background step
FailuresRecorded(sc, l, failed, n) ==
    /\ n = Len(Failures(l))
    /\ Len(failed) = n
    /\ \A j \in 1..Len(failed) :
          IF Failures(l)[j].background
          THEN failed[j] = <<"B","a","c","k","g","r","o","u","n","d",":"," ">>
                             \o StepOf(sc, Failures(l)[j]).step_text
          ELSE failed[j] = StepOf(sc, Failures(l)[j]).step_text

\* after a failed background step that is not the last one, the next
\* background step was executed
GoesOnAfterFailedBackgroundStep(sc, l) ==
    \A i \in 1..Len(l) :
        l[i].background /\ ~l[i].ok /\ i < Len(sc.background_steps)
        => Len(l) > i /\ l[i + 1].background

\* C12: a failing background step is counted in steps_failed and listed in
\* failed_steps as a background failure, and the remaining background
\* steps are still executed.
C12_BackgroundFailureRecordedNotStopping ==
    /\ phase \in {"background", "steps"} =>
          /\ FailuresRecorded(scenarios[si], log, failed_steps, steps_failed)
          /\ phase = "steps" =>
                GoesOnAfterFailedBackgroundStep(scenarios[si], log)
    /\ \A k \in 1..Len(results) :
          /\ FailuresRecorded(scenarios[k], results[k].log,
                              results[k].failed_steps,
                              results[k].steps_failed)
          /\ GoesOnAfterFailedBackgroundStep(scenarios[k], results[k].log)

\* C12: the first background step failed, the second one was executed and
\* passed, and the result lists the first one as a background failure
C12_Witness ==
    /\ Len(results) = 1
    /\ scenarios = << s_background >>
    /\ ~results[1].log[1].ok /\ results[1].log[2].ok
    /\ SubSeq(results[1].failed_steps[1], 1, 10)
         = <<"B","a","c","k","g","r","o","u","n","d">>
    /\ results[1].steps_failed >= 1

\* the entry ElementCache.get had for the latest call when it started
EntryAtCall ==
    CacheGet(lastRes.table_before, lastRes.call.url, lastRes.call.description)

\* C13: on a cache hit the call returns the cached selector and its type
\* at once: no DOM probe, no heuristic tier, no AI call, the table and the
\* page untouched, whether or not the selector is still on the page.
C13_CacheHitReturnsWithoutProbe ==
    lastRes.made /\ EntryAtCall.present =>
       /\ lastRes.call.ret
            = Found(EntryAtCall.selector, EntryAtCall.selector_type)
       /\ lastRes.call.src = "CACHE"
       /\ lastRes.call.probes = <<>>
       /\ ~lastRes.call.ai_invoked
       /\ lastRes.ai_after = lastRes.ai_before
       /\ lastRes.hits_after = lastRes.hits_before + 1
       /\ lastRes.call.table = lastRes.table_before
       /\ lastRes.call.page = lastRes.pg

\* C13: a cache hit for a selector that is no longer on the page, on a
\* page where a heuristic candidate would have been found; the step that
\* used the cached selector failed
C13_Witness ==
    /\ lastRes.made /\ EntryAtCall.present
    /\ ~find_element(lastRes.pg, EntryAtCall.selector,
                     EntryAtCall.selector_type)
    /\ FirstHit(lastRes.pg, Variations[lastRes.call.description]) > 0
    /\ log # <<>> /\ ~log[Len(log)].ok

\* the probes of the heuristic tier in a call
HeuristicProbes(call) == SelectSeq(call.probes, LAMBDA q : q.tier = "HEURISTIC")

\* the first n candidates of xs were probed on pg, in order, as XPath
ProbedInOrder(hp, xs, pg, n) ==
    /\ Len(hp) = n
    /\ \A i \in 1..n :
          /\ hp[i].sel = xs[i] /\ hp[i].type = "xpath"
          /\ hp[i].ok = find_element(pg, xs[i], "xpath")

\* C14: on a cache miss the heuristic candidates are probed in generation
\* order; the call returns the first one that is on the page, after
\* writing it to the cache under the URL and description of the call, and
\* probes no later candidate; when none is on the page all were probed.
C14_FirstExistingCandidateCachedAndReturned ==
    lastRes.made /\ ~EntryAtCall.present =>
       IF \E i \in 1..Len(Variations[lastRes.call.description]) :
             find_element(lastRes.pg,
                          Variations[lastRes.call.description][i], "xpath")
       THEN /\ lastRes.call.src = "HEURISTIC"
            /\ lastRes.call.probes = HeuristicProbes(lastRes.call)
            /\ ProbedInOrder(lastRes.call.probes,
                             Variations[lastRes.call.description], lastRes.pg,
                             Len(lastRes.call.probes))
            /\ \A i \in 1..(Len(lastRes.call.probes) - 1) :
                  ~lastRes.call.probes[i].ok
            /\ lastRes.call.probes[Len(lastRes.call.probes)].ok
            /\ lastRes.call.ret
                 = Found(lastRes.call.probes[Len(lastRes.call.probes)].sel,
                         "xpath")
            /\ lastRes.call.table
                 = CacheSet(lastRes.table_before, lastRes.call.url,
                            lastRes.call.description,
                            lastRes.call.ret.selector, "xpath")
            /\ CacheGet(lastRes.call.table, lastRes.call.url,
                        lastRes.call.description)
                 = Entry(lastRes.call.url, lastRes.call.description,
                         lastRes.call.ret.selector, "xpath")
       ELSE /\ lastRes.call.src # "HEURISTIC"
            /\ ProbedInOrder(HeuristicProbes(lastRes.call),
                             Variations[lastRes.call.description], lastRes.pg,
                             Len(Variations[lastRes.call.description]))

\* C14: a candidate was returned and cached, and a later candidate that is
\* on the page too was not probed
C14_Witness ==
    /\ lastRes.made /\ lastRes.call.src = "HEURISTIC"
    /\ ~EntryAtCall.present
    /\ \E j \in (Len(lastRes.call.probes) + 1)
                ..Len(Variations[lastRes.call.description]) :
          find_element(lastRes.pg, Variations[lastRes.call.description][j],
                       "xpath")

\* the cache had no entry for the call and no heuristic candidate was on
\* the page
MissAndNoCandidate ==
    /\ ~EntryAtCall.present
    /\ \A i \in 1..Len(Variations[lastRes.call.description]) :
          ~find_element(lastRes.pg, Variations[lastRes.call.description][i],
                        "xpath")

\* C15: one call of _get_element_selector invokes the AI detector at most
\* once, and exactly once when the cache misses and every heuristic
\* candidate fails its probe.  The invocation is synchronous: it has
\* answered (or raised) when the call ends, so none is outstanding when the
\* next call starts.
C15_AIInvokedOncePerUnresolvedCall ==
    lastRes.made =>
       /\ lastRes.ai_after - lastRes.ai_before \in {0, 1}
       /\ lastRes.call.ai_invoked <=> (lastRes.ai_after = lastRes.ai_before + 1)
       /\ MissAndNoCandidate =>
             /\ lastRes.call.ai_invoked
             /\ lastRes.ai_after = lastRes.ai_before + 1
             /\ lastRes.call.reply \in Replies

\* C15: a second call in a run that found nothing in the cache or on the
\* page, and asked the AI once more
C15_Witness ==
    /\ lastRes.made /\ MissAndNoCandidate
    /\ lastRes.ai_before = 1 /\ lastRes.ai_after = 2
    /\ ai_calls = 2

\* the AI detector was asked and its own answer reports success with a
\* best selector
AIGaveBest ==
    /\ lastRes.made /\ lastRes.call.ai_invoked
    /\ lastRes.call.reply.kind = "json"
    /\ {"success", "best_selector"} \subseteq lastRes.call.reply.body.keys
    /\ lastRes.call.reply.body.success
    /\ Truthy(lastRes.call.reply.body.best_selector)

\* the probes of the AI tier in a call
AIProbes(call) == SelectSeq(call.probes, LAMBDA q : q.tier = "AI")

\* the call cached the selector under its URL and description and
\* returned it
CachedAndReturned(res, selector, type) ==
    /\ res.call.ret = Found(selector, type)
    /\ res.call.table
         = CacheSet(res.table_before, res.call.url, res.call.description,
                    selector, type)
    /\ CacheGet(res.call.table, res.call.url, res.call.description)
         = Entry(res.call.url, res.call.description, selector, type)

\* C16: in the AI tier the best selector the AI reports is probed once on
\* the page, as XPath when it starts with // or xpath= and as CSS
\* otherwise; it is written to the cache under the URL and description of
\* the call and returned if and only if the probe finds it, and otherwise
\* the call returns nothing and leaves the cache alone.
C16_AIBestProbedThenCachedIffFound ==
    AIGaveBest =>
       /\ lastRes.call.src \in {"AI", "NONE"}
       /\ Len(AIProbes(lastRes.call)) = 1
       /\ lastRes.call.probes[Len(lastRes.call.probes)]
            = [tier |-> "AI", sel |-> lastRes.call.reply.body.best_selector,
               type |-> IF lastRes.call.reply.body.best_selector.lead
                            \in {"//", "xpath="}
                        THEN "xpath" ELSE "css",
               ok |-> lastRes.call.src = "AI"]
       /\ lastRes.call.probes[Len(lastRes.call.probes)].ok
            = find_element(lastRes.call.page,
                           lastRes.call.reply.body.best_selector,
                           lastRes.call.probes[Len(lastRes.call.probes)].type)
       /\ IF lastRes.call.probes[Len(lastRes.call.probes)].ok
          THEN CachedAndReturned(lastRes,
                  lastRes.call.reply.body.best_selector,
                  lastRes.call.probes[Len(lastRes.call.probes)].type)
          ELSE /\ lastRes.call.ret = NotFound
               /\ lastRes.call.table = lastRes.table_before

\* C16: the AI's CSS selector was found on the page, cached and returned
C16_Witness ==
    /\ AIGaveBest /\ lastRes.call.src = "AI"
    /\ lastRes.call.ret = Found(sel_role_css, "css")
    /\ CacheGet(cache, lastRes.call.url, lastRes.call.description).present

(***************************************************************************)
(* Properties of ElementCache and its file (CacheSpec).  op is the latest  *)
(* operation, the other variables are the state it left.                   *)
(***************************************************************************)
\* get returned what was last set under the key, absent if nothing was
GotLatest ==
    /\ ~op.raised
    /\ op.entry = CacheGet(written, op.url, op.element_description)

\* C17 (as stated): set completes, and get returns the entry most recently
\* set under the key of (url, description), absent when none was, without
\* raising.
C17_AsStated ==
    /\ op.name = "set" => ~op.raised
    /\ op.name = "get" => GotLatest

\* every get on self.cache gives what a new ElementCache on the file gives
SameFromNewObject ==
    \A u \in CacheUrls, d \in GetDescriptions :
        ElementCacheGet(load_cache(cache_file), cache_file, u, d)
          = ElementCacheGet(self_cache, cache_file, u, d)

FileHoldsTable ==
    /\ cache_file.kind = "object"
    /\ cache_file.table = self_cache.table
    /\ SameFromNewObject

\* C18 (as stated): after every completed set or clear_cache the file
\* holds exactly the table in memory.
C18_AsStated ==
    op.name \in {"set", "clear"} /\ ~op.raised => FileHoldsTable

\* C18 (amended): after every completed set or clear_cache whose write of
\* the file succeeded, the file holds exactly the table in memory, and a
\* new ElementCache constructed on the file returns the same from get for
\* every (url, description).
C18_FileHoldsTableAfterSuccessfulSave ==
    op.name \in {"set", "clear"} /\ ~op.raised /\ op.saved => FileHoldsTable

\* C18: a set that replaced an entry of a table of two and reached the file
C18_Witness ==
    /\ op.name = "set" /\ ~op.raised /\ op.saved
    /\ self_cache.size = 2
    /\ cache_file = f_object(self_cache.table)
    /\ CacheGet(self_cache.table, op.url, op.element_description).selector
         = sel_login_exact

\* after clear_cache nothing is in memory
NothingInMemory ==
    /\ \A u \in CacheUrls, d \in GetDescriptions :
          /\ ~ElementCacheGet(self_cache, cache_file, u, d).raised
          /\ ~ElementCacheGet(self_cache, cache_file, u, d).entry.present
    /\ get_stats(self_cache, cache_file).total_entries = 0

\* C19 (as stated): after clear_cache get returns absent everywhere,
\* get_stats reports zero entries and the file holds the empty table.
C19_AsStated ==
    op.name = "clear" =>
        NothingInMemory /\ cache_file = f_object(EmptyTable)

\* C19 (amended): after clear_cache get returns absent for every
\* (url, description) and get_stats reports zero entries; the file holds
\* the empty table when the write of the file succeeded.
C19_ClearEmptiesMemoryAndSavedFile ==
    op.name = "clear" =>
        /\ ~op.raised
        /\ NothingInMemory
        /\ op.saved => cache_file = f_object(EmptyTable)

\* C19: a clear_cache whose write reached the file
C19_Witness ==
    /\ op.name = "clear" /\ op.saved
    /\ self_cache = PyDict(EmptyTable)
    /\ cache_file = f_object(EmptyTable)
    /\ written = EmptyTable

\* C20 (as stated): constructed on a file that is unreadable or does not
\* hold a table, the cache starts empty: the constructor does not raise,
\* every get returns absent and set works.
C20_AsStated ==
    op.name = "init" /\ cache_file.kind \notin {"object", "missing"} =>
        /\ ~op.raised
        /\ self_cache = PyDict(EmptyTable)
        /\ NothingInMemory
        /\ \A u \in CacheUrls, d \in SetDescriptions, disk \in Disk :
              ~ElementCacheSet(self_cache, cache_file, u, d, sel_role_css,
                               "css", disk).raised

\* the latest operation was a set whose save_cache did not reach the file
\* (a set on a list or a string raises before save_cache and leaves it)
SetWithFailedSave ==
    op.name = "set" /\ ~op.saved /\ self_cache.kind = "dict"

\* C21: when the write of the file fails during set, set does not raise,
\* the new entry is in the table in memory, and get returns the entry
\* last set for as long as the object lives, whatever the file holds.
C21_FailedSaveKeepsEntryInMemory ==
    /\ SetWithFailedSave =>
          /\ ~op.raised
          /\ CacheGet(self_cache.table, op.url, op.element_description).present
          /\ ElementCacheGet(self_cache, cache_file, op.url,
                             op.element_description).entry
               = CacheGet(written, op.url, op.element_description)
    /\ self_cache.kind = "dict" => self_cache.table = written
    /\ op.name = "get" /\ self_cache.kind = "dict" => GotLatest

\* C21: a get that returned an entry the file does not hold
C21_Witness ==
    /\ op.name = "get" /\ ~op.raised /\ op.entry.present
    /\ cache_file.kind \in {"object", "notjson", "missing"}
    /\ ~CacheGet(cache_file.table, op.url, op.element_description).present

\* a step keeps every entry of the table as it is
EntriesKept ==
    \A k \in DOMAIN cache : k \in DOMAIN cache' /\ cache'[k] = cache[k]

\* a call made in a step whose key is in the table returns the entry's
\* selector from the cache, without a probe or an AI call
CachedServed ==
    lastRes'.made /\ lastRes' # lastRes
    /\ CacheGet(cache, lastRes'.call.url, lastRes'.call.description).present
    => /\ lastRes'.call.src = "CACHE"
       /\ lastRes'.call.ret
            = Found(CacheGet(cache, lastRes'.call.url,
                             lastRes'.call.description).selector,
                    CacheGet(cache, lastRes'.call.url,
                             lastRes'.call.description).selector_type)
       /\ lastRes'.call.probes = <<>> /\ ~lastRes'.call.ai_invoked

\* C22: once a call has cached a selector for a URL and description, no
\* step of the run (other steps, page changes, later scenarios) removes or
\* replaces the entry, and every later call for that URL and description
\* returns that selector from the cache, bypassing the heuristic and AI
\* tiers.  (The executor never calls clear_cache, and writes a key only
\* on a miss.)
C22_CachedEntryServedEverAfter == [][EntriesKept /\ CachedServed]_vars

\* C22: a second cache hit in a scenario whose page changed meanwhile
C22_Witness ==
    /\ lastRes.made /\ lastRes.call.src = "CACHE"
    /\ lastRes.hits_after >= 2 /\ changes = 1
    /\ lastRes.table_before = cache

\* the latest _get_element_selector call ran on a dead browser session:
\* the driver raised in the step that made it
FatalInStep == lastRes.made /\ lastRes.pg.open /\ lastRes.pg.closed

\* C23 (as stated): after a driver-fatal error raised during a step no
\* further step is executed and execute_feature_file does not return
\* normally.
C23_AsStated ==
    [][FatalInStep => ~(Len(log') > Len(log)) /\ phase' # "returned"]_vars

\* C24: the process exits with a non-zero code whenever a scenario of the
\* returned list has passed = false, and with code 0 when every returned
\* scenario passed (also when the list is empty).
C24_ExitCodeTellsFailedScenario ==
    phase = "exited" =>
        /\ exit_code \in {<< 0 >>, << 1 >>}
        /\ exit_code # << 0 >>
             <=> \E k \in 1..Len(results) : ~results[k].passed
        /\ exit_code = << 0 >>
             <=> \A k \in 1..Len(results) : results[k].passed

\* C24: exit code 1 for a list of two where one scenario failed and the
\* other passed
C24_Witness ==
    /\ phase = "exited" /\ exit_code = << 1 >>
    /\ Len(results) = 2
    /\ ~results[1].passed /\ results[2].passed

\* the step the run is about to execute, and a transition that executes it
CurrentStep ==
    IF phase = "background" THEN scenarios[si].background_steps[idx]
    ELSE scenarios[si].steps[idx]

StepRuns == phase \in {"background", "steps"} /\ Len(log') = Len(log) + 1

\* the step made no _get_element_selector call and left the table and the
\* two counters as they were
EngineUnused ==
    /\ cache' = cache
    /\ cache_hits' = cache_hits /\ ai_calls' = ai_calls
    /\ lastRes' = lastRes /\ prevRes' = prevRes

\* C25: a verify step never uses _get_element_selector: its result is that
\* of one contains-text probe for the expected text on the page, and it
\* leaves the cache, cache_hits and ai_calls unchanged.
C25_VerifyProbesTextOnly ==
    [][StepRuns /\ Handler(CurrentStep) = "verify"
       => /\ EngineUnused
          /\ page' = page
          /\ log'[Len(log')].ok
               = (/\ CurrentStep.expected_text # NoText
                  /\ find_element(page,
                                  Sel("//", "any_contains",
                                      CurrentStep.expected_text), "xpath"))
      ]_vars

\* C25: a verify step has passed in a run that had cached a selector and
\* counted a cache hit or an AI call before
C25_Witness ==
    /\ log # <<>> /\ log[Len(log)].ok /\ ~log[Len(log)].background
    /\ phase = "steps" /\ idx > 1
    /\ scenarios[si].steps[idx - 1].action = "verify"
    /\ DOMAIN cache # {}
    /\ cache_hits + ai_calls > 0

\* the keywords _handle_generic_step looks for in the step text
GenericKeywords ==
    {kw_click, kw_type, kw_enter, kw_input, kw_select, kw_see, kw_verify,
     kw_check, kw_navigate, kw_go_to}

\* a step with none of the six actions whose text holds none of them
Unclassified(step) ==
    /\ step.action \notin
         {"navigate", "click", "type", "select", "verify", "wait"}
    /\ \A kw \in GenericKeywords : ~Contains(Lower(step.step_text), kw)

\* C26: a step whose action is none of navigate, click, type, select,
\* verify, wait and whose text holds none of the generic keywords is
\* reported successful without any DOM, cache or AI operation: it is not
\* counted as failed and the scenario goes on to its next step.
C26_UnclassifiedStepPassesUntouched ==
    [][StepRuns /\ Unclassified(CurrentStep)
       => /\ EngineUnused
          /\ page' = page
          /\ log'[Len(log')].ok
          /\ steps_passed' = steps_passed + 1
          /\ steps_failed' = steps_failed /\ failed_steps' = failed_steps
          /\ phase = "steps" => phase' = "steps" /\ idx' = idx + 1
      ]_vars

\* C26: the unclassified step of s_background has run on a live page and
\* the step after it is next
C26_Witness ==
    /\ scenarios = << s_background >> /\ phase = "steps" /\ idx = 4
    /\ Unclassified(s_background.steps[3])
    /\ log[Len(log)] = [background |-> FALSE, index |-> 3, ok |-> TRUE]
    /\ Usable(page)

(***************************************************************************)
(* Properties of generate_xpath_variations (XPathSpec).                    *)
(***************************************************************************)
\* the patterns of a list of selectors, in order
Patterns(xs) == [i \in 1..Len(xs) |-> xs[i].pat]

ButtonPatterns ==
    << "button_text", "button_contains", "input_button_value",
       "input_submit_value" >>
LinkPatterns == << "a_text", "a_contains" >>
InputPatterns ==
    << "input_placeholder", "input_name", "input_id", "input_label_for" >>

\* C27: for every description containing "button" the result starts with
\* the exact-text button selector, the contains-text button selector and
\* the input type=button and type=submit value selectors, in that order
\* and for one text; for every description the generic contains-text
\* selector of the stripped description is the last element, so the
\* result is never empty.
C27_ButtonSelectorsFirstGenericLast ==
    xp.done =>
       /\ Contains(Lower(xp.description), kw_button) =>
             /\ Len(xp.variations) >= 5
             /\ SubSeq(Patterns(xp.variations), 1, 4) = ButtonPatterns
             /\ \A i \in 1..4 :
                   /\ xp.variations[i].lead = "//"
                   /\ xp.variations[i].arg = xp.variations[1].arg
       /\ xp.variations # <<>>
       /\ xp.variations[Len(xp.variations)]
            = GenericSelector(xp.description)

\* C27: the call on "login button" returned five selectors
C27_Witness ==
    /\ xp.done /\ xp.description = t_login_button
    /\ Len(xp.variations) = 5
    /\ xp.variations[1] = Sel("//", "button_text", t_login)

\* the patterns a description calls for: those of each category whose
\* keyword it holds, in the order button, link, input, then the generic one
PatternsFor(lowered) ==
    (IF Contains(lowered, kw_button) THEN ButtonPatterns ELSE <<>>)
    \o (IF Contains(lowered, kw_link) THEN LinkPatterns ELSE <<>>)
    \o (IF Contains(lowered, kw_input) \/ Contains(lowered, kw_field)
        THEN InputPatterns ELSE <<>>)
    \o << "any_contains" >>

\* C28: the keyword matches are independent: the result holds the
\* selectors of each category whose keyword (button, link, input or field)
\* the description contains, each category once, in the order button,
\* link, input, and no selector occurs twice in the list.
C28_CategoriesOnceInOrderNoDuplicate ==
    xp.done =>
       /\ Patterns(xp.variations) = PatternsFor(Lower(xp.description))
       /\ \A i \in 1..Len(xp.variations), j \in 1..Len(xp.variations) :
             xp.variations[i] = xp.variations[j] => i = j

\* C28: a description holding button, link, input and field gave the
\* eleven selectors of the three categories and the generic one
C28_Witness ==
    /\ xp.done
    /\ Contains(xp.description, kw_button)
    /\ Contains(xp.description, kw_link)
    /\ Contains(xp.description, kw_field)
    /\ Len(xp.variations) = 11

\* the language the AI wrote a selector in: XPath when it starts with //
\* or carries the xpath= tag, CSS otherwise
MeantEngine(selector) == IF selector.lead = "" THEN "css" ELSE "xpath"

DistinctPairs(u1, d1, u2, d2) ==
    u1 # u2 \/ Strip(Lower(d1)) # Strip(Lower(d2))

\* C30 (as stated): distinct (url, normalised description) pairs never
\* share a key: a set for one pair leaves what get returns for every
\* different pair as it was.
C30_AsStated ==
    [][op'.name = "set" /\ ~op'.raised
       => \A ud \in GetPairs :
             DistinctPairs(op'.url, op'.element_description, ud[1], ud[2])
             => CacheGet(self_cache'.table, ud[1], ud[2])
                  = CacheGet(self_cache.table, ud[1], ud[2])
      ]_vars

\* a backend reply that is a JSON object with every expected key, success
\* true and a best selector
WellFormedSuccess(reply) ==
    /\ reply.kind = "json"
    /\ reply.body.keys = AIKeys
    /\ reply.body.success
    /\ Truthy(reply.body.best_selector)

\* C31 (as stated): under each supported provider with complete
\* credentials the detector is constructed, and a well-formed successful
\* backend reply is returned by find_element_selector unchanged.
C31_AsStated ==
    det.settings.ai_provider \in Providers /\ det.settings.complete =>
       /\ det.state # "raised"
       /\ det.state = "called" /\ WellFormedSuccess(det.reply) =>
             det.out = AIResult(FALSE, det.reply.body)

(***************************************************************************)
(* Further properties of _get_element_selector                             *)
(***************************************************************************)
\* a probe of the call reported the selector, probed as that type, as
\* existing
ProbedAsExisting(call, selector, type) ==
    \E i \in 1..Len(call.probes) :
        /\ call.probes[i].ok
        /\ call.probes[i].sel = selector
        /\ call.probes[i].type = type

\* the keys whose entry the call wrote
KeysWritten(res) ==
    {k \in DOMAIN res.call.table :
        k \notin DOMAIN res.table_before
        \/ res.call.table[k] # res.table_before[k]}

\* C32: every entry a call writes to the cache holds a selector that a DOM
\* probe of that same call reported as existing, stored under the URL read
\* at the start of the call and the description of the call; a selector
\* returned from the heuristic or the AI tier was reported as existing by
\* a probe of the call as well.
C32_WrittenAndReturnedSelectorsWereProbed ==
    lastRes.made =>
       /\ lastRes.call.url = get_page_url(lastRes.pg)
       /\ \A k \in KeysWritten(lastRes) :
             /\ k = GenerateKey(lastRes.call.url, lastRes.call.description)
             /\ lastRes.call.table[k].url = lastRes.call.url
             /\ lastRes.call.table[k].element_description
                  = lastRes.call.description
             /\ ProbedAsExisting(lastRes.call, lastRes.call.table[k].selector,
                                 lastRes.call.table[k].selector_type)
       /\ lastRes.call.src \in {"HEURISTIC", "AI"} =>
             /\ lastRes.call.ret.found
             /\ ProbedAsExisting(lastRes.call, lastRes.call.ret.selector,
                                 lastRes.call.ret.type)

\* a call that found a later heuristic candidate after failed probes wrote
\* its entry over nothing
C32_Witness ==
    /\ lastRes.made /\ lastRes.call.src = "HEURISTIC"
    /\ Len(lastRes.call.probes) >= 2
    /\ KeysWritten(lastRes)
         = {GenerateKey(lastRes.call.url, lastRes.call.description)}

\* the step made a call of _get_element_selector
Resolves == lastRes' # lastRes

\* C33: a call that returns None leaves the table in memory and the cache
\* file as they were; the table or the file changes only in a call that
\* returns a selector from the heuristic or the AI tier, and such a call
\* writes exactly one entry of the table.
C33_OnlyFoundSelectorsWriteOneEntry ==
    [][/\ Resolves /\ ~lastRes'.call.ret.found
          => cache' = cache /\ cache_file' = cache_file
       /\ cache' # cache \/ cache_file' # cache_file
          => /\ Resolves
             /\ lastRes'.call.src \in {"HEURISTIC", "AI"}
             /\ lastRes'.call.ret.found
       /\ Resolves /\ lastRes'.call.src \in {"HEURISTIC", "AI"}
          => /\ lastRes'.table_before = cache
             /\ lastRes'.call.table = cache'
             /\ Cardinality(KeysWritten(lastRes')) = 1
             /\ cache_file' # cache_file =>
                  cache_file' \in {f_object(cache'), f_not_json}
      ]_vars

\* a call returned None while the table and the saved file held an entry
C33_Witness ==
    /\ lastRes.made /\ ~lastRes.call.ret.found
    /\ lastRes.call.src = "NONE"
    /\ lastRes.table_before # EmptyTable
    /\ cache_file = f_object(cache)

(***************************************************************************)
(* Further properties of execute_scenario and execute_feature_file         *)
(***************************************************************************)
\* the failed main steps of a result: by the steps it ran, and by the
\* entries of failed_steps that lack the background prefix
FailedMainSteps(r) ==
    {j \in 1..Len(r.log) : ~r.log[j].background /\ ~r.log[j].ok}

UnprefixedFailedSteps(r) ==
    {j \in 1..Len(r.failed_steps) :
        \/ Len(r.failed_steps[j]) < Len(t_Background_prefix)
        \/ SubSeq(r.failed_steps[j], 1, Len(t_Background_prefix))
             # t_Background_prefix}

\* C34: in every TestResult steps_executed = steps_passed + steps_failed,
\* failed_steps has steps_failed entries, and at most one failed step is a
\* main step.
C34_ResultCountersAgree ==
    \A i \in 1..Len(results) :
        /\ results[i].steps_executed
             = results[i].steps_passed + results[i].steps_failed
        /\ Len(results[i].failed_steps) = results[i].steps_failed
        /\ results[i].steps_executed = Len(results[i].log)
        /\ Cardinality(FailedMainSteps(results[i])) <= 1
        /\ Cardinality(UnprefixedFailedSteps(results[i])) <= 1

\* a result with failed background steps, a failed main step and passed
\* steps
C34_Witness ==
    \E i \in 1..Len(results) :
        /\ results[i].steps_failed >= 2
        /\ results[i].steps_passed >= 1
        /\ Cardinality(FailedMainSteps(results[i])) = 1

\* execute_feature_file returned [] from its except clause: every feature
\* file of Features holds a scenario, so an empty scenario list at the
\* return is the one ParseFails left
ParseFailed == phase \in {"returned", "exited"} /\ scenarios = <<>>

\* C35 (as stated): the process exits with code 0 only if the feature file
\* was parsed and every scenario in it was executed and reported passed; a
\* failure of execute_feature_file itself never leads to exit code 0.
C35_AsStated ==
    phase = "exited" /\ exit_code = << 0 >> =>
       /\ ~ParseFailed
       /\ Len(results) = Len(scenarios)
       /\ \A k \in 1..Len(results) : results[k].passed

\* C36 (as stated): after any sequence of execute_feature_file calls on
\* one executor, passed_scenarios + failed_scenarios = total_scenarios =
\* the number of results the last call returned.
C36_AsStated ==
    phase = "returned" =>
       /\ passed_scenarios + failed_scenarios = total_scenarios
       /\ total_scenarios = Len(results)

\* a later call of execute_feature_file is about to run its first step and
\* that step is a navigate step
FirstNavigateOfLaterCall ==
    /\ calls >= 2 /\ phase \in {"background", "steps"}
    /\ si = 1 /\ log = <<>>
    /\ CurrentStep.action = "navigate"

\* C37 (as stated): execute_feature_file leaves the browser closed on every
\* exit path, and when it is called again the first navigate step starts a
\* fresh browser session and can succeed.
C37_AsStated ==
    /\ phase = "returned" => ~Usable(page)
    /\ FirstNavigateOfLaterCall =>
          \E o \in execute_step(CurrentStep, cache, page) :
              o.ok /\ Usable(o.page)

\* what find_element_selector returned to the call
DetectorResult(call) ==
    find_element_selector(analyze_dom(call.reply), call.description)

\* another selector of the backend's list is on the page the AI tier
\* probed
OtherListedOnPage(call) ==
    \E i \in 1..Len(call.reply.body.selectors) :
        /\ call.reply.body.selectors[i] # call.reply.body.best_selector
        /\ find_element(call.page, call.reply.body.selectors[i],
                        InferType(call.reply.body.selectors[i]))

\* C38: the AI tier probes the detector's best selector and nothing else;
\* when that probe fails the call returns None and leaves the cache alone,
\* also when another selector of the AI's list is on the page.
C38_OnlyBestSelectorProbed ==
    lastRes.made /\ lastRes.call.ai_invoked =>
       /\ Len(AIProbes(lastRes.call)) <= 1
       /\ \A i \in 1..Len(AIProbes(lastRes.call)) :
             /\ ~DetectorResult(lastRes.call).raised
             /\ AIProbes(lastRes.call)[i].sel
                  = DetectorResult(lastRes.call).result.best_selector
       /\ AIProbes(lastRes.call) # <<>> /\ ~AIProbes(lastRes.call)[1].ok =>
             /\ lastRes.call.ret = NotFound
             /\ lastRes.call.src = "NONE"
             /\ lastRes.call.table = lastRes.table_before

\* the best selector was not on the page, another listed one was, and the
\* call returned None
C38_Witness ==
    /\ lastRes.made /\ lastRes.call.ai_invoked
    /\ lastRes.call.reply = r_best(sel_missing_css, <<sel_role_css>>)
    /\ OtherListedOnPage(lastRes.call)
    /\ lastRes.call.ret = NotFound
    /\ Len(AIProbes(lastRes.call)) = 1

(***************************************************************************)
(* Further properties of generate_xpath_variations (XPathSpec)             *)
(***************************************************************************)
\* s with every occurrence of the lower-case word old removed, in whatever
\* letter case it occurs
RemoveAnyCase(s, old) ==
    LET rest[i \in 1..(Len(s) + 1)] ==
            IF i > Len(s) THEN <<>>
            ELSE IF i + Len(old) - 1 <= Len(s)
                    /\ Lower(SubSeq(s, i, i + Len(old) - 1)) = old
                 THEN rest[i + Len(old)]
                 ELSE <<s[i]>> \o rest[i + 1]
    IN  rest[1]

\* the selectors of xs that are instances of the patterns ps embed text
EmbedText(xs, ps, text) ==
    \A i \in 1..Len(xs) :
        (\E j \in 1..Len(ps) : xs[i].pat = ps[j]) => xs[i].arg = text

\* C39 (as stated): for a description that holds a category keyword in any
\* letter case, the text embedded in the selectors of that category is the
\* description with the keyword removed and trimmed ("Login Button" gives
\* the button selectors for "Login").
C39_AsStated ==
    xp.done =>
       /\ Contains(Lower(xp.description), kw_button) =>
             EmbedText(xp.variations, ButtonPatterns,
                       Strip(RemoveAnyCase(Strip(xp.description), kw_button)))
       /\ Contains(Lower(xp.description), kw_link) =>
             EmbedText(xp.variations, LinkPatterns,
                       Strip(RemoveAnyCase(Strip(xp.description), kw_link)))
       /\ Contains(Lower(xp.description), kw_input)
          \/ Contains(Lower(xp.description), kw_field) =>
             EmbedText(xp.variations, InputPatterns,
                       Strip(RemoveAnyCase(
                                 RemoveAnyCase(Strip(xp.description), kw_input),
                                 kw_field)))

====
